---------------------------- MODULE Spec2Model ----------------------------
(***************************************************************************)
(* A model of the ingestion-and-indexing pipeline of the activity feed:    *)
(* the Kafka message consumer (app/services/message_consumer.py), the      *)
(* search-index adapter it writes to (app/services/search_service.py), the *)
(* audit relational store (app/repositories/transaction_repository.py),    *)
(* the idempotency cache (app/services/cache_service.py) and the circuit   *)
(* breaker that gates the index calls (app/middleware/circuit_breaker.py). *)
(* Further down: the circuit breaker on its own (SpecBreaker,              *)
(* SpecKillSwitch), the query services behind the page cache (SpecQuery), *)
(* the cursor codec (SpecCodec, SpecCursor), the API with the publisher    *)
(* (SpecApi), the health endpoint (SpecHealth), the consumer fed with      *)
(* messages it cannot enrich (SpecEnrich), stopped by a signal             *)
(* (SpecShutdown), with its periodic breaker check (SpecBreakerCheck) and  *)
(* fed with successive updates (SpecUpdates), the breaker under concurrent *)
(* callers (SpecThreads) and the list route for several users (SpecUsers). *)
(*                                                                         *)
(* Conventions: a missing value (Python None, an absent dict key) is the   *)
(* empty string for strings and 0 for numbers; amounts are in thousandths  *)
(* of a currency unit and -1 stands for an amount that float() rejects.    *)
(***************************************************************************)
EXTENDS Integers, Sequences, FiniteSets, TLC

(***************************************************************************)
(* Bounds of the model.                                                    *)
(***************************************************************************)
\* Messages appended to the topic, over all its partitions.
MaxLog == 3
\* settings.circuit_breaker_failure_threshold as configured for the model
\* (its default is 5).
failure_threshold == 2
\* Cap on failure_count, which the breaker never bounds itself.
MaxFailures == 3

(***************************************************************************)
(* Program constants.                                                      *)
(***************************************************************************)
half_open_success_threshold == 2
batch_size == 10
enable_audit_db == TRUE
kafka_enable_auto_commit == FALSE

CREATED == "transaction.created"
UPDATED == "transaction.updated"
DELETED == "transaction.deleted"
\* An event type the consumer does not know.
REFUNDED == "transaction.refunded"

\* Two of the three partitions the topic is created with.
Partitions == {0, 1}
TxIds == {"t1"}
\* Values of the server clock (datetime.utcnow(), func.now()) while the
\* consumer runs; every timestamp carried by an event is earlier.
Times == {9}

(***************************************************************************)
(* Events on the topic.                                                    *)
(***************************************************************************)
\* metadata is "" (none, or an empty mapping), "mapping" or "text" (a JSON
\* string where a mapping is expected).
NoTransaction ==
    [present |-> FALSE, id |-> "", user_id |-> "", status |-> "",
     amount |-> 0, created_at |-> 0, metadata |-> ""]

Transaction(id, user_id, status, amount, created_at) ==
    [present |-> TRUE, id |-> id, user_id |-> user_id, status |-> status,
     amount |-> amount, created_at |-> created_at, metadata |-> ""]

\* The wire format {event_type, transaction, timestamp, version?}.
Event(event_type, transaction, timestamp, version) ==
    [event_type |-> event_type, transaction |-> transaction,
     timestamp |-> timestamp, version |-> version]

EvCreatedV1 == Event(CREATED, Transaction("t1", "u1", "pending", 150000, 1), 1, 1)
EvUpdatedV2 == Event(UPDATED, Transaction("t1", "u1", "completed", 150000, 1), 2, 2)
\* An update that carries no version and an amount with three decimals.
EvUpdatedNoVersion == Event(UPDATED, Transaction("t1", "u1", "failed", 1234, 1), 3, 0)
\* publish_transaction_deleted sends {"id": id} only.
EvDeleted == Event(DELETED, Transaction("t1", "", "", 0, 0), 4, 0)
EvUnknownType == Event(REFUNDED, Transaction("t1", "u1", "completed", 150000, 1), 5, 0)
EvNoTransaction == Event(CREATED, NoTransaction, 6, 0)
\* float(amount) raises in _normalize_transaction.
EvBadAmount == Event(CREATED, Transaction("t1", "u1", "pending", -1, 1), 7, 1)
\* A delete whose transaction carries no id.
EvDeletedNoId == Event(DELETED, Transaction("", "u1", "", 0, 0), 4, 0)

Events ==
    {EvCreatedV1, EvUpdatedV2, EvUpdatedNoVersion, EvDeleted, EvUnknownType,
     EvNoTransaction, EvBadAmount, EvDeletedNoId}

\* The message EventService._publish_event builds: the timestamp is the
\* payload's created_at, or its updated_at when created_at is missing (0 is
\* a missing value), and no version is attached.
EventMessage(event_type, transaction, updated_at) ==
    Event(event_type, transaction,
          IF transaction.created_at # 0 THEN transaction.created_at
          ELSE updated_at,
          0)

\* Later states of transaction t1, created at time 1.
UpdatePayloads ==
    {Transaction("t1", "u1", status, 150000, 1) : status \in {"completed", "failed"}}

\* The updated events the API publishes for them at times 2 and 3.
UpdatedEvents ==
    {EventMessage(UPDATED, t, updated_at) : t \in UpdatePayloads, updated_at \in {2, 3}}

\* The partitioner: the key is user_id, a message without key goes anywhere.
PartitionsOf(value) ==
    IF value.transaction.user_id = "u1" THEN {0}
    ELSE IF value.transaction.user_id = "" THEN Partitions
    ELSE {1}

VARIABLES
    log,                \* the topic: partition -> sequence of events
    position,           \* the consumer's fetch position per partition
    committed,          \* the offset handed to consumer.commit per partition
    pc,                 \* where _process_batch stands
    todo,               \* messages of the batch not handled yet
    successful,         \* _process_batch's list of the same name
    failed,             \* _process_batch's list of the same name
    processed_messages, \* the in-process idempotency set
    cache,              \* keys present in the shared cache
    index,              \* the search index: id -> stored document
    audit,              \* the relational table: id -> row
    dlq,                \* what was sent to <topic>.dlq
    es_breaker,         \* the index breaker
    circuit_breaker_enabled, \* settings.circuit_breaker_enabled
    search_enabled,     \* SearchService.enabled
    cache_enabled,      \* CacheService.enabled
    runs,               \* history: fingerprint -> times enriched / fanned out
    last,               \* history: what became of the last message handled
    calls,              \* history: the calls made through the breaker
    transactions,       \* the transactions table as the query services read it
    documents,          \* the documents of the index as they read it
    use_elasticsearch_as_primary, \* settings.use_elasticsearch_as_primary
    page_cache,         \* the cached pages: cache key -> page
    response,           \* history: the last query and what it returned
    walk,               \* history: the pages walked from the first one
    queries,            \* history: the queries made
    redis_breaker,      \* the cache breaker
    kafka_breaker,      \* the publisher's breaker
    events_enabled,     \* EventService.enabled
    redis_up,           \* whether the cache server answers
    es_up,              \* whether the index answers the API
    published,          \* history: what the publisher handed to the producer
    reply               \* history: the last request of the API and its answer

\* What the consumer's pipeline owns besides the breaker and its switch.
pipeline_vars ==
    <<log, position, committed, pc, todo, successful, failed,
      processed_messages, cache, index, audit, dlq, search_enabled,
      cache_enabled, runs, last>>

\* What the query services own.
query_vars ==
    <<transactions, documents, use_elasticsearch_as_primary, page_cache,
      response, walk, queries>>

\* What the API's services own besides.
service_vars ==
    <<redis_breaker, kafka_breaker, events_enabled, redis_up, es_up, published,
      reply>>

\* What the consumer process never touches.
api_vars == <<calls, query_vars, service_vars>>

\* The value of an absent cursor, and of the query history before a query.
NoCursor == [head |-> "", b64 |-> FALSE, json |-> FALSE, members |-> <<>>]

NoFilters == [status |-> "", start_date |-> 0, search_query |-> <<>>]

NoResponse ==
    [kind |-> "none", user_id |-> "", filters |-> NoFilters, limit |-> 0,
     cursor |-> NoCursor, page |-> 0, hit |-> FALSE, items |-> <<>>,
     next_cursor |-> NoCursor, has_more |-> FALSE, total |-> 0,
     total_pages |-> 0]

NoWalk ==
    [active |-> FALSE, filters |-> NoFilters, limit |-> 0, items |-> <<>>,
     pages |-> 0, done |-> FALSE]

\* The query side of a process that serves no query, over empty stores.
QueriesAtStart ==
    /\ transactions = {}
    /\ documents = {}
    /\ use_elasticsearch_as_primary = FALSE
    /\ page_cache = <<>>
    /\ response = NoResponse
    /\ walk = NoWalk
    /\ queries = 0

vars ==
    <<log, position, committed, pc, todo, successful, failed,
      processed_messages, cache, index, audit, dlq, es_breaker,
      circuit_breaker_enabled, search_enabled, cache_enabled, runs, last,
      api_vars>>


(***************************************************************************)
(* The circuit breaker (app/middleware/circuit_breaker.py).  A breaker is  *)
(* a record; last_failure_time is "none", "recent" (less than timeout ago) *)
(* or "old" (timeout or more ago).                                         *)
(***************************************************************************)
NewBreaker ==
    [state |-> "closed", failure_count |-> 0, success_count |-> 0,
     last_failure_time |-> "none"]

\* A timeout check that only asks whether a failure was ever recorded.
ShouldAttemptResetAfterAnyFailure(b) == b.last_failure_time # "none"

_should_attempt_reset(b) == b.last_failure_time = "old"

\* A success handler that leaves the failure counter of a closed breaker.
OnSuccessKeepsFailureCount(b) ==
    IF b.state = "half_open"
    THEN IF b.success_count + 1 >= half_open_success_threshold
         THEN [b EXCEPT !.state = "closed", !.failure_count = 0,
                        !.success_count = 0]
         ELSE [b EXCEPT !.success_count = @ + 1]
    ELSE b

_on_success(b) ==
    IF b.state = "half_open"
    THEN IF b.success_count + 1 >= half_open_success_threshold
         THEN [b EXCEPT !.state = "closed", !.failure_count = 0,
                        !.success_count = 0]
         ELSE [b EXCEPT !.success_count = @ + 1]
    ELSE IF b.state = "closed"
    THEN [b EXCEPT !.failure_count = 0]
    ELSE b

\* A failure handler that treats a half-open breaker like an open one.
OnFailureStaysHalfOpen(b) ==
    LET counted == [b EXCEPT !.failure_count = @ + 1,
                             !.last_failure_time = "recent"]
    IN  IF b.state = "closed" /\ counted.failure_count >= failure_threshold
        THEN [counted EXCEPT !.state = "open"]
        ELSE counted

_on_failure(b) ==
    LET counted == [b EXCEPT !.failure_count = @ + 1,
                             !.last_failure_time = "recent"]
    IN  IF b.state = "half_open"
        THEN [counted EXCEPT !.state = "open", !.success_count = 0]
        ELSE IF b.state = "closed" /\ counted.failure_count >= failure_threshold
        THEN [counted EXCEPT !.state = "open"]
        ELSE counted

\* A call that gates whatever the kill switch says.
CallIgnoringKillSwitch(b, enabled, funcOk) ==
    IF b.state = "open" /\ ~_should_attempt_reset(b)
    THEN [breaker |-> b, result |-> "open", invoked |-> FALSE]
    ELSE LET admitted ==
                 IF b.state = "open"
                 THEN [b EXCEPT !.state = "half_open", !.success_count = 0]
                 ELSE b
         IN  IF funcOk
             THEN [breaker |-> _on_success(admitted), result |-> "ok",
                   invoked |-> TRUE]
             ELSE [breaker |-> _on_failure(admitted), result |-> "error",
                   invoked |-> TRUE]

\* call(func): funcOk says whether func returns (TRUE) or raises (FALSE).
\* The result is "ok", "error" (func raised) or "open" (rejected); invoked
\* says whether func was called.
call(b, enabled, funcOk) ==
    IF ~enabled
    THEN [breaker |-> b, result |-> IF funcOk THEN "ok" ELSE "error",
          invoked |-> TRUE]
    ELSE IF b.state = "open" /\ ~_should_attempt_reset(b)
    THEN [breaker |-> b, result |-> "open", invoked |-> FALSE]
    ELSE LET admitted ==
                 IF b.state = "open"
                 THEN [b EXCEPT !.state = "half_open", !.success_count = 0]
                 ELSE b
         IN  IF funcOk
             THEN [breaker |-> _on_success(admitted), result |-> "ok",
                   invoked |-> TRUE]
             ELSE [breaker |-> _on_failure(admitted), result |-> "error",
                   invoked |-> TRUE]

\* call_async(func): the same steps around an awaited func.
call_async(b, enabled, funcOk) ==
    IF ~enabled
    THEN [breaker |-> b, result |-> IF funcOk THEN "ok" ELSE "error",
          invoked |-> TRUE]
    ELSE IF b.state = "open" /\ ~_should_attempt_reset(b)
    THEN [breaker |-> b, result |-> "open", invoked |-> FALSE]
    ELSE LET admitted ==
                 IF b.state = "open"
                 THEN [b EXCEPT !.state = "half_open", !.success_count = 0]
                 ELSE b
         IN  IF funcOk
             THEN [breaker |-> _on_success(admitted), result |-> "ok",
                   invoked |-> TRUE]
             ELSE [breaker |-> _on_failure(admitted), result |-> "error",
                   invoked |-> TRUE]

\* A reset that only closes the breaker.
ResetStateOnly(b) == [b EXCEPT !.state = "closed"]

reset(b) == NewBreaker

\* The value of the request history before a request.
NoReply == [op |-> "none"]

\* The API's services of a process that has served no request.
ServicesAtStart ==
    /\ redis_breaker = NewBreaker
    /\ kafka_breaker = NewBreaker
    /\ events_enabled = TRUE
    /\ redis_up = TRUE
    /\ es_up = TRUE
    /\ published = <<>>
    /\ reply = NoReply

(***************************************************************************)
(* The search index (app/services/search_service.py).                      *)
(***************************************************************************)
NoBody == [id |-> "", user_id |-> "", status |-> "", amount |-> 0, created_at |-> 0]
NoDoc == [present |-> FALSE, version |-> 0, source |-> NoBody]

\* es_client.index with version_type=external_gte: a write is accepted when
\* no document is stored or its version is not above the new one; without a
\* version the index counts versions itself.
EsAccepts(stored, version) ==
    version = 0 \/ ~stored.present \/ version >= stored.version

EsStore(stored, doc, version) ==
    [present |-> TRUE,
     version |-> IF version # 0 THEN version
                 ELSE IF stored.present THEN stored.version + 1 ELSE 1,
     source |-> doc]

\* SearchService.index_transaction: the new breaker, the new index and how
\* the call ended ("ok", "open", "error", "disabled").  es_ok says whether
\* the index answers this call.
index_transaction(doc, version, es_ok) ==
    IF ~search_enabled
    THEN [success |-> FALSE, kind |-> "disabled", breaker |-> es_breaker,
          index |-> index]
    ELSE LET r == call(es_breaker, circuit_breaker_enabled,
                       es_ok /\ EsAccepts(index[doc.id], version))
         IN  [success |-> r.result = "ok", kind |-> r.result,
              breaker |-> r.breaker,
              index |-> IF r.result = "ok"
                        THEN [index EXCEPT ![doc.id] = EsStore(@, doc, version)]
                        ELSE index]

\* SearchService.delete_transaction: not behind the breaker; a failure
\* (index down, no such document) is swallowed.
delete_transaction(transaction_id, es_ok) ==
    IF search_enabled /\ es_ok
    THEN [index EXCEPT ![transaction_id] = NoDoc]
    ELSE index

(***************************************************************************)
(* The audit store (MessageConsumer._write_to_audit_db over                *)
(* TransactionRepository and the transactions table).                      *)
(***************************************************************************)
NoRow == [present |-> FALSE, id |-> "", user_id |-> "", status |-> "",
          amount |-> 0, created_at |-> 0]

\* The amount column is Numeric(18, 2): thousandths are rounded to cents.
Numeric2(amount) == ((amount + 5) \div 10) * 10

\* An exception of the store (db_ok false) is swallowed and leaves the table
\* as it was.
AuditRaises(db_ok) == enable_audit_db /\ ~db_ok

_write_to_audit_db(doc, event_type, now, db_ok) ==
    IF ~enable_audit_db \/ ~db_ok
    THEN audit
    ELSE IF event_type = DELETED
    THEN [audit EXCEPT ![doc.id] = NoRow]
    ELSE IF audit[doc.id].present
    THEN [audit EXCEPT ![doc.id] =
              [@ EXCEPT !.user_id = doc.user_id, !.status = doc.status,
                        !.amount = Numeric2(doc.amount)]]
    ELSE [audit EXCEPT ![doc.id] =
              [present |-> TRUE, id |-> doc.id, user_id |-> doc.user_id,
               status |-> doc.status, amount |-> Numeric2(doc.amount),
               created_at |-> now]]

(***************************************************************************)
(* Idempotency (MessageConsumer._generate_message_id, _is_duplicate,       *)
(* _mark_as_processed).                                                    *)
(***************************************************************************)
\* sha256 of "id:event_type:timestamp", kept as the triple it hashes.
_generate_message_id(value) ==
    <<value.transaction.id, value.event_type, value.timestamp>>

Fingerprints == {_generate_message_id(v) : v \in Events \cup UpdatedEvents}

ProcessedKey(message_id) == <<"message:processed", message_id>>

\* A lookup that forgets the in-process set.
IsDuplicateCacheOnly(message_id) ==
    cache_enabled /\ ProcessedKey(message_id) \in cache

_is_duplicate(message_id) ==
    \/ message_id \in processed_messages
    \/ cache_enabled /\ ProcessedKey(message_id) \in cache

\* The new (processed_messages, cache).
_mark_as_processed(message_id) ==
    [processed |-> processed_messages \cup {message_id},
     cache |-> IF cache_enabled
               THEN cache \cup {ProcessedKey(message_id)}
               ELSE cache]

(***************************************************************************)
(* Versioning and normalisation.                                           *)
(***************************************************************************)
\* _add_version: an event's own version wins; otherwise one above what the
\* index holds, and 1 when the lookup finds nothing or fails.
_add_version(transaction, version, get_ok) ==
    IF version # 0 THEN version
    ELSE IF search_enabled /\ get_ok /\ transaction.id \in TxIds
            /\ index[transaction.id].present
    THEN index[transaction.id].version + 1
    ELSE 1

\* TransactionStrategy.enrich_metadata: metadata.copy(), which a text has
\* not (AttributeError).
enrich_metadata(metadata) ==
    [raised |-> metadata = "text", metadata |-> metadata]

\* MessageConsumer._enrich_transaction: a failure of the enrichment is
\* logged and the transaction is returned as it came.
_enrich_transaction(transaction) ==
    IF transaction.metadata # "" /\ enrich_metadata(transaction.metadata).raised
    THEN [failed |-> TRUE, transaction |-> transaction]
    ELSE [failed |-> FALSE,
          transaction |->
              [transaction EXCEPT
                  !.metadata = IF @ # "" THEN enrich_metadata(@).metadata ELSE @]]

\* float(amount) raises for an amount that is no number.
NormalizeRaises(transaction) == transaction.amount < 0

_normalize_transaction(transaction, now) ==
    [id |-> transaction.id, user_id |-> transaction.user_id,
     status |-> transaction.status, amount |-> transaction.amount,
     created_at |-> IF transaction.created_at # 0
                    THEN transaction.created_at ELSE now]

(***************************************************************************)
(* One message of a batch: the body of the loop of _process_batch.         *)
(***************************************************************************)
\* The outcome of a message that is acknowledged and touches nothing.
Acknowledged ==
    [acked |-> TRUE, duplicate |-> FALSE, enriched |-> FALSE,
     enrich_failed |-> FALSE, fanned |-> FALSE, version |-> 0, index_kind |-> "none", audit_raised |-> FALSE,
     marked |-> FALSE, processed |-> processed_messages, cache |-> cache,
     index |-> index, audit |-> audit, breaker |-> es_breaker]

\* Enriched, then put on the failed list (an exception, an unknown event
\* type, a delete without id).
Failed == [Acknowledged EXCEPT !.acked = FALSE, !.enriched = TRUE]

\* now is utcnow() in _normalize_transaction, db_now the store's now();
\* get_ok, es_ok and db_ok say whether the lookup of _add_version, the
\* write to the index and the store answer.
HandleMessage(value, now, db_now, get_ok, es_ok, db_ok) ==
    LET message_id == _generate_message_id(value)
        enriched_transaction == _enrich_transaction(value.transaction)
        transaction == enriched_transaction.transaction
        version == _add_version(transaction, value.version, get_ok)
        doc == _normalize_transaction(transaction, now)
        mark == _mark_as_processed(message_id)
        written == [Acknowledged EXCEPT
                       !.enriched = TRUE, !.fanned = TRUE, !.marked = TRUE,
                       !.enrich_failed = enriched_transaction.failed,
                       !.audit_raised = AuditRaises(db_ok),
                       !.processed = mark.processed, !.cache = mark.cache,
                       !.audit = _write_to_audit_db(doc, value.event_type,
                                                   db_now, db_ok)]
    IN  IF ~transaction.present
        THEN Acknowledged
        ELSE IF _is_duplicate(message_id)
        THEN [Acknowledged EXCEPT !.duplicate = TRUE]
        ELSE IF NormalizeRaises(transaction)
        THEN [Failed EXCEPT !.enrich_failed = enriched_transaction.failed]
        ELSE IF value.event_type \in {CREATED, UPDATED}
        THEN LET r == index_transaction(doc, version, es_ok)
             IN  [written EXCEPT !.index_kind = r.kind, !.index = r.index,
                                 !.breaker = r.breaker, !.version = version]
        ELSE IF value.event_type = DELETED
        THEN IF doc.id # ""
             THEN [written EXCEPT !.index = delete_transaction(doc.id, es_ok)]
             ELSE [Failed EXCEPT !.enrich_failed = enriched_transaction.failed]
        ELSE [Failed EXCEPT !.enrich_failed = enriched_transaction.failed]

Bump(n) == IF n < 2 THEN n + 1 ELSE n

NoneHandled ==
    [handled |-> FALSE, partition |-> 0, offset |-> 0, value |-> EvNoTransaction,
     acked |-> FALSE, duplicate |-> FALSE, index_kind |-> "none",
     audit_raised |-> FALSE, marked |-> FALSE, fanned |-> FALSE,
     enrich_failed |-> FALSE, version |-> 0, stored_version |-> 0]

(***************************************************************************)
(* The consumer: start_consuming and _process_batch.                       *)
(***************************************************************************)
\* The records a poll returns for partition p, in offset order.
Fetched(p) ==
    [i \in 1..(Len(log[p]) - position[p]) |->
        [partition |-> p, offset |-> position[p] + i - 1,
         value |-> log[p][position[p] + i]]]

Min(a, b) == IF a <= b THEN a ELSE b

\* consumer.poll: up to max_poll_records = batch_size records, flattened
\* over the partitions.
Poll ==
    /\ pc = "idle"
    /\ \E p \in Partitions : position[p] < Len(log[p])
    /\ LET all_messages == Fetched(0) \o Fetched(1)
           batch == SubSeq(all_messages, 1, Min(batch_size, Len(all_messages)))
       IN  /\ todo' = batch
           /\ position' =
                [p \in Partitions |->
                    position[p]
                    + Cardinality({i \in 1..Len(batch) : batch[i].partition = p})]
    /\ successful' = <<>>
    /\ failed' = <<>>
    /\ pc' = "process"
    /\ UNCHANGED <<log, committed, processed_messages, cache, index, audit,
                   dlq, es_breaker, circuit_breaker_enabled, search_enabled,
                   cache_enabled, runs, last>>
    /\ UNCHANGED api_vars

ProcessMessage ==
    /\ pc = "process"
    /\ todo # <<>>
    /\ \E now \in Times, db_now \in Times, get_ok \in BOOLEAN,
          es_ok \in BOOLEAN, db_ok \in BOOLEAN :
          /\ now <= db_now
          /\ LET message == Head(todo)
                 f == _generate_message_id(message.value)
             IN  \E o \in {HandleMessage(message.value, now, db_now, get_ok,
                                         es_ok, db_ok)} :
                 /\ o.breaker.failure_count <= MaxFailures
                 /\ successful' =
                      IF o.acked THEN Append(successful, message) ELSE successful
                 /\ failed' = IF o.acked THEN failed ELSE Append(failed, message)
                 /\ processed_messages' = o.processed
                 /\ cache' = o.cache
                 /\ index' = o.index
                 /\ audit' = o.audit
                 /\ es_breaker' = o.breaker
                 /\ runs' =
                      [runs EXCEPT ![f] =
                          [enriched |-> IF o.enriched THEN Bump(@.enriched)
                                        ELSE @.enriched,
                           fanned |-> IF o.fanned THEN Bump(@.fanned)
                                      ELSE @.fanned]]
                 /\ last' =
                      [handled |-> TRUE, partition |-> message.partition,
                       offset |-> message.offset, value |-> message.value,
                       acked |-> o.acked, duplicate |-> o.duplicate,
                       index_kind |-> o.index_kind,
                       audit_raised |-> o.audit_raised, marked |-> o.marked,
                       fanned |-> o.fanned, enrich_failed |-> o.enrich_failed,
                       version |-> o.version,
                       stored_version |->
                           IF /\ message.value.transaction.id \in TxIds
                              /\ index[message.value.transaction.id].present
                           THEN index[message.value.transaction.id].version
                           ELSE 0]
    /\ todo' = Tail(todo)
    /\ UNCHANGED <<log, position, committed, pc, dlq, circuit_breaker_enabled,
                   search_enabled, cache_enabled>>
    /\ UNCHANGED api_vars

Max(S) == CHOOSE x \in S : \A y \in S : y <= x

\* offsets = {msg.partition: {msg.offset + 1: None} for msg in successful}:
\* the last successful message of each partition decides.
CommitOffsets(msgs) ==
    [p \in Partitions |->
        LET of_p == {i \in 1..Len(msgs) : msgs[i].partition = p}
        IN  IF of_p = {} THEN committed[p] ELSE msgs[Max(of_p)].offset + 1]

\* "Commit successful messages", which comes before the DLQ.
Commit ==
    /\ pc = "process"
    /\ todo = <<>>
    /\ committed' = IF successful # <<>> /\ ~kafka_enable_auto_commit
                    THEN CommitOffsets(successful)
                    ELSE committed
    /\ pc' = "dlq"
    /\ UNCHANGED <<log, position, todo, successful, failed, processed_messages,
                   cache, index, audit, dlq, es_breaker,
                   circuit_breaker_enabled, search_enabled, cache_enabled, runs, last>>
    /\ UNCHANGED api_vars

\* The error is always "Unknown error": Python unbinds the name of an
\* except clause when the clause ends, so 'e' is never in locals() here.
DlqMessage(message, now) ==
    [original_message |-> message.value, error |-> "Unknown error",
     timestamp |-> now, partition |-> message.partition,
     offset |-> message.offset]

\* "Handle failed messages": nothing is sent while the index breaker is open.
SendToDLQ ==
    /\ pc = "dlq"
    /\ \E now \in Times :
          dlq' = IF es_breaker.state = "open"
                 THEN dlq
                 ELSE dlq \cup {DlqMessage(failed[i], now) : i \in 1..Len(failed)}
    /\ pc' = "idle"
    /\ successful' = <<>>
    /\ failed' = <<>>
    /\ last' = NoneHandled
    /\ UNCHANGED <<log, position, committed, todo, processed_messages, cache,
                   index, audit, es_breaker, circuit_breaker_enabled,
                   search_enabled, cache_enabled, runs>>
    /\ UNCHANGED api_vars

\* A check that resets the breaker whenever the ping succeeds.
ResetWheneverPingSucceeds(b, ping) ==
    IF search_enabled /\ ping THEN reset(b) ELSE b

\* MessageConsumer._check_and_reset_circuit_breaker on the index breaker b:
\* the ping is made only when get_state() says "open" and the adapter is
\* in service; a ping that fails or raises changes nothing.
_check_and_reset_circuit_breaker(b, ping) ==
    IF b.state = "open" /\ search_enabled /\ ping THEN reset(b) ELSE b

\* _check_and_reset_circuit_breaker, run between polls, when the ping of the
\* index succeeds.
CheckAndResetCircuitBreaker ==
    /\ pc = "idle"
    /\ es_breaker.state = "open"
    /\ search_enabled
    /\ es_breaker' = _check_and_reset_circuit_breaker(es_breaker, TRUE)
    /\ UNCHANGED <<log, position, committed, pc, todo, successful, failed,
                   processed_messages, cache, index, audit, dlq,
                   circuit_breaker_enabled, search_enabled, cache_enabled, runs, last>>
    /\ UNCHANGED api_vars

(***************************************************************************)
(* The environment.                                                        *)
(***************************************************************************)
\* A producer appends an event to the partition of its key.  A batch in
\* hand never reads the log, so appends are taken between batches.
Publish ==
    /\ pc = "idle"
    /\ \E value \in Events, p \in Partitions :
          /\ p \in PartitionsOf(value)
          /\ Len(log[0]) + Len(log[1]) < MaxLog
          /\ log' = [log EXCEPT ![p] = Append(@, value)]
    /\ UNCHANGED <<position, committed, pc, todo, successful, failed,
                   processed_messages, cache, index, audit, dlq, es_breaker,
                   circuit_breaker_enabled, search_enabled, cache_enabled, runs, last>>
    /\ UNCHANGED api_vars

\* Redelivery: after a rebalance the group resumes from the committed offsets.
Redeliver ==
    /\ pc = "idle"
    /\ position # committed
    /\ position' = committed
    /\ UNCHANGED <<log, committed, pc, todo, successful, failed,
                   processed_messages, cache, index, audit, dlq, es_breaker,
                   circuit_breaker_enabled, search_enabled, cache_enabled, runs, last>>
    /\ UNCHANGED api_vars

\* The breaker's timeout passes since the last recorded failure; the breaker
\* reads its clock only while open.
TimeoutElapses ==
    /\ es_breaker.state = "open"
    /\ es_breaker.last_failure_time = "recent"
    /\ es_breaker' = [es_breaker EXCEPT !.last_failure_time = "old"]
    /\ UNCHANGED <<log, position, committed, pc, todo, successful, failed,
                   processed_messages, cache, index, audit, dlq,
                   circuit_breaker_enabled, search_enabled, cache_enabled, runs, last>>
    /\ UNCHANGED api_vars

PageKey(user_id) == <<"transactions:user", user_id>>

\* The query service writes a page of a user through to the cache.
CachePage ==
    /\ pc = "idle"
    /\ cache_enabled
    /\ cache' = cache \cup {PageKey("u1")}
    /\ UNCHANGED <<log, position, committed, pc, todo, successful, failed,
                   processed_messages, index, audit, dlq, es_breaker,
                   circuit_breaker_enabled, search_enabled, cache_enabled, runs, last>>
    /\ UNCHANGED api_vars

Init ==
    /\ log = [p \in Partitions |-> <<>>]
    /\ position = [p \in Partitions |-> 0]
    /\ committed = [p \in Partitions |-> 0]
    /\ pc = "idle"
    /\ todo = <<>>
    /\ successful = <<>>
    /\ failed = <<>>
    /\ processed_messages = {}
    /\ cache = {}
    /\ index = [t \in TxIds |-> NoDoc]
    /\ audit = [t \in TxIds |-> NoRow]
    /\ dlq = {}
    /\ es_breaker = NewBreaker
    /\ circuit_breaker_enabled \in BOOLEAN
    /\ search_enabled \in BOOLEAN
    /\ cache_enabled \in BOOLEAN
    /\ runs = [f \in Fingerprints |-> [enriched |-> 0, fanned |-> 0]]
    /\ last = NoneHandled
    /\ calls = <<>>
    /\ QueriesAtStart
    /\ ServicesAtStart

Next ==
    \/ Poll
    \/ ProcessMessage
    \/ Commit
    \/ SendToDLQ
    \/ CheckAndResetCircuitBreaker
    \/ Publish
    \/ Redeliver
    \/ TimeoutElapses
    \/ CachePage

Spec == Init /\ [][Next]_vars

(***************************************************************************)
(* Properties of the consumer.                                             *)
(***************************************************************************)
\* This step handles the message at the head of the batch.
HandlesHead ==
    /\ pc = "process"
    /\ todo # <<>>
    /\ todo' = Tail(todo)

HeadValue == Head(todo).value

\* The document the consumer builds from an event that carries created_at.
DocOf(value) == _normalize_transaction(value.transaction, 0)

Handled(value) == runs[_generate_message_id(value)].fanned >= 1

\* C1: for every fingerprint, enrichment and the fan-out writes run at most
\* once, also when the first handling ended on the failed list.
C1_AtMostOncePerFingerprint ==
    \A f \in Fingerprints : runs[f].enriched <= 1 /\ runs[f].fanned <= 1

\* C2: with the index adapter in service, once the created/updated events
\* with explicit versions have been processed for t1 (and no other event
\* for t1), the index holds the highest processed version and its payload.
C2_IndexHoldsHighestVersion ==
    (/\ search_enabled
     /\ ~Handled(EvUpdatedNoVersion)
     /\ ~Handled(EvDeleted))
    => /\ Handled(EvUpdatedV2) =>
            index["t1"] = [present |-> TRUE, version |-> 2,
                           source |-> DocOf(EvUpdatedV2)]
       /\ (Handled(EvCreatedV1) /\ ~Handled(EvUpdatedV2)) =>
            index["t1"] = [present |-> TRUE, version |-> 1,
                           source |-> DocOf(EvCreatedV1)]

\* C3: handling a created/updated event whose version is below the version
\* the index holds for that id, when both stores hold the transaction,
\* changes neither the index document nor the audit row.
C3_VersionRegressIsNoOp ==
    [][(/\ HandlesHead
        /\ HeadValue.transaction.present
        /\ HeadValue.event_type \in {CREATED, UPDATED}
        /\ ~NormalizeRaises(HeadValue.transaction)
        /\ HeadValue.version # 0
        /\ index[HeadValue.transaction.id].present
        /\ audit[HeadValue.transaction.id].present
        /\ HeadValue.version < index[HeadValue.transaction.id].version)
       => (index' = index /\ audit' = audit)]_vars

\* C4: when the index upsert is rejected because the breaker is open, the
\* message is marked processed and acknowledged if and only if the audit
\* write succeeded.
C4_BreakerOpenAckIffAuditOk ==
    (last.handled /\ last.index_kind = "open")
    => ((last.marked /\ last.acked) <=> ~last.audit_raised)

\* C5: when the index upsert fails for another reason than an open breaker,
\* or the audit write fails, the message goes to the failed list (and from
\* there to the DLQ) and is not acknowledged as a success.
C5_FailureGoesToDLQ ==
    (last.handled /\ (last.index_kind = "error" \/ last.audit_raised))
    => (/\ ~last.acked
        /\ \E i \in 1..Len(failed) :
              /\ failed[i].partition = last.partition
              /\ failed[i].offset = last.offset)

\* C6: the committed offset of a partition is never past a failed message
\* of the batch whose DLQ write has not been made.
C6_CommitAfterDLQ ==
    \A i \in 1..Len(failed) :
        committed[failed[i].partition] > failed[i].offset
        => \E d \in dlq : /\ d.partition = failed[i].partition
                          /\ d.offset = failed[i].offset

\* C7: a message with an unknown event type, and a message without a
\* transaction payload, is acknowledged and not put on the failed list.
C7_UnknownOrEmptyIsAcked ==
    (/\ last.handled
     /\ ~last.duplicate
     /\ \/ ~last.value.transaction.present
        \/ last.value.event_type \notin {CREATED, UPDATED, DELETED})
    => last.acked

Agree(doc, row) ==
    /\ doc.present = row.present
    /\ doc.present =>
          /\ doc.source.id = row.id
          /\ doc.source.user_id = row.user_id
          /\ doc.source.status = row.status
          /\ doc.source.amount = row.amount
          /\ doc.source.created_at = row.created_at

\* C9: with the index adapter in service, once an event for t1 has been
\* processed and nothing is in flight, the audit row and the index document
\* of t1 agree.
C9_StoresAgree ==
    (/\ search_enabled
     /\ pc = "idle"
     /\ \A p \in Partitions : position[p] = Len(log[p])
     /\ \E v \in Events : v.transaction.id = "t1" /\ Handled(v))
    => Agree(index["t1"], audit["t1"])

\* C10: after a transaction.deleted event has been processed, the
\* transaction is in neither store and no cached page of its user is left.
C10_DeletedEverywhere ==
    (/\ last.handled
     /\ last.value.event_type = DELETED
     /\ last.fanned)
    => /\ ~index[last.value.transaction.id].present
       /\ ~audit[last.value.transaction.id].present
       /\ PageKey("u1") \notin cache

(***************************************************************************)
(* The circuit breaker on its own: one breaker of the process, the calls   *)
(* made through it, reset() and the passing of its timeout.                *)
(***************************************************************************)
\* Calls and resets recorded in the history.
MaxCalls == 6

CallOps == {"call", "call_async"}

\* One entry of the history: the breaker before and after, whether func
\* returned (ok), how the call ended and whether func was invoked.
Called(op, funcOk, before, r) ==
    [op |-> op, ok |-> funcOk, before |-> before, after |-> r.breaker,
     result |-> r.result, invoked |-> r.invoked]

\* breaker.call(func) by any client of the breaker.
Call ==
    /\ Len(calls) < MaxCalls
    /\ \E funcOk \in BOOLEAN :
          LET r == call(es_breaker, circuit_breaker_enabled, funcOk)
          IN  /\ es_breaker' = r.breaker
              /\ calls' = Append(calls, Called("call", funcOk, es_breaker, r))
    /\ UNCHANGED <<circuit_breaker_enabled, pipeline_vars, query_vars,
                   service_vars>>

\* await breaker.call_async(func).
CallAsync ==
    /\ Len(calls) < MaxCalls
    /\ \E funcOk \in BOOLEAN :
          LET r == call_async(es_breaker, circuit_breaker_enabled, funcOk)
          IN  /\ es_breaker' = r.breaker
              /\ calls' = Append(calls,
                                 Called("call_async", funcOk, es_breaker, r))
    /\ UNCHANGED <<circuit_breaker_enabled, pipeline_vars, query_vars,
                   service_vars>>

\* breaker.reset(), in whatever state the breaker is.
Reset ==
    /\ Len(calls) < MaxCalls
    /\ es_breaker' = reset(es_breaker)
    /\ calls' = Append(calls,
                       [op |-> "reset", ok |-> TRUE, before |-> es_breaker,
                        after |-> reset(es_breaker), result |-> "reset",
                        invoked |-> FALSE])
    /\ UNCHANGED <<circuit_breaker_enabled, pipeline_vars, query_vars,
                   service_vars>>

\* The pipeline before anything was published.
PipelineAtStart ==
    /\ log = [p \in Partitions |-> <<>>]
    /\ position = [p \in Partitions |-> 0]
    /\ committed = [p \in Partitions |-> 0]
    /\ pc = "idle"
    /\ todo = <<>>
    /\ successful = <<>>
    /\ failed = <<>>
    /\ processed_messages = {}
    /\ cache = {}
    /\ index = [t \in TxIds |-> NoDoc]
    /\ audit = [t \in TxIds |-> NoRow]
    /\ dlq = {}
    /\ runs = [f \in Fingerprints |-> [enriched |-> 0, fanned |-> 0]]
    /\ last = NoneHandled

InitBreaker ==
    /\ PipelineAtStart
    /\ search_enabled = TRUE
    /\ cache_enabled = TRUE
    /\ es_breaker = NewBreaker
    /\ circuit_breaker_enabled \in BOOLEAN
    /\ calls = <<>>
    /\ QueriesAtStart
    /\ ServicesAtStart

NextBreaker ==
    \/ Call
    \/ CallAsync
    \/ Reset
    \/ TimeoutElapses

SpecBreaker == InitBreaker /\ [][NextBreaker]_vars

\* Every value a breaker can be handed to call() with.
Breakers ==
    [state : {"closed", "open", "half_open"},
     failure_count : 0..MaxFailures,
     success_count : 0..(half_open_success_threshold - 1),
     last_failure_time : {"none", "recent", "old"}]

\* call() and call_async() as functions of the breaker, with the kill
\* switch off.
InitKillSwitch ==
    /\ PipelineAtStart
    /\ search_enabled = TRUE
    /\ cache_enabled = TRUE
    /\ es_breaker \in Breakers
    /\ circuit_breaker_enabled = FALSE
    /\ calls = <<>>
    /\ QueriesAtStart
    /\ ServicesAtStart

NextKillSwitch ==
    \/ Call
    \/ CallAsync

SpecKillSwitch == InitKillSwitch /\ [][NextKillSwitch]_vars

(***************************************************************************)
(* Properties of the circuit breaker.                                      *)
(***************************************************************************)
\* The failures recorded in a row up to and including entry i.
RECURSIVE FailuresInARow(_)
FailuresInARow(i) ==
    IF i = 0 THEN 0
    ELSE IF calls[i].result # "error" THEN 0
    ELSE 1 + FailuresInARow(i - 1)

\* C11: a call through a closed breaker leaves it open exactly when it is
\* the failure_threshold-th failure in a row, and a success while closed
\* sets failure_count to 0.
C11_OpensAtThresholdInARow ==
    circuit_breaker_enabled =>
        \A i \in 1..Len(calls) :
            (calls[i].op \in CallOps /\ calls[i].before.state = "closed")
            => /\ calls[i].invoked
               /\ calls[i].after.state \in {"closed", "open"}
               /\ (calls[i].after.state = "open")
                  <=> (FailuresInARow(i) = failure_threshold)
               /\ (calls[i].result = "ok")
                  => calls[i].after.failure_count = 0

\* A failure, a success, then failure_threshold failures: the breaker stays
\* closed until the last of them.
C11_Witness ==
    /\ circuit_breaker_enabled
    /\ Len(calls) = failure_threshold + 2
    /\ calls[1].result = "error"
    /\ calls[2].result = "ok"
    /\ \A i \in 3..Len(calls) : calls[i].result = "error"
    /\ \A i \in 1..(Len(calls) - 1) : calls[i].after.state = "closed"
    /\ es_breaker.state = "open"

\* C12: a call through an open breaker whose last failure is less than
\* timeout ago is rejected, does not invoke func and leaves the breaker as
\* it was.
C12_OpenRejectsWithoutEffect ==
    circuit_breaker_enabled =>
        \A i \in 1..Len(calls) :
            (/\ calls[i].op \in CallOps
             /\ calls[i].before.state = "open"
             /\ calls[i].before.last_failure_time = "recent")
            => /\ calls[i].result = "open"
               /\ ~calls[i].invoked
               /\ calls[i].after = calls[i].before

\* Two calls were rejected by the open breaker, one of each kind.
C12_Witness ==
    /\ circuit_breaker_enabled
    /\ es_breaker.state = "open"
    /\ es_breaker.last_failure_time = "recent"
    /\ \E i, j \in 1..Len(calls) :
          /\ calls[i].op = "call" /\ calls[i].result = "open"
          /\ calls[j].op = "call_async" /\ calls[j].result = "open"

\* The probe before entry i: the last call admitted by an open breaker.
ProbeBefore(i) ==
    LET probes == {j \in 1..i : /\ calls[j].op \in CallOps
                                /\ calls[j].before.state = "open"
                                /\ calls[j].invoked}
    IN  IF probes = {} THEN 0 ELSE Max(probes)

\* C13: a half-open breaker returns to closed only after
\* half_open_success_threshold successes that follow the successful probe.
C13_ClosesAfterFurtherSuccesses ==
    circuit_breaker_enabled =>
        \A i \in 1..Len(calls) :
            (/\ calls[i].op \in CallOps
             /\ calls[i].before.state = "half_open"
             /\ calls[i].after.state = "closed")
            => Cardinality({j \in (ProbeBefore(i) + 1)..i :
                               calls[j].result = "ok"})
                  >= half_open_success_threshold

\* C14: a failure recorded by a half-open breaker leaves it open with
\* success_count 0 and the timeout running from that failure.
C14_HalfOpenFailureReopens ==
    circuit_breaker_enabled =>
        \A i \in 1..Len(calls) :
            (/\ calls[i].op \in CallOps
             /\ calls[i].before.state = "half_open"
             /\ calls[i].result = "error")
            => /\ calls[i].after.state = "open"
               /\ calls[i].after.success_count = 0
               /\ calls[i].after.last_failure_time = "recent"

\* The probe succeeded, so one success was counted, and the next call failed.
C14_Witness ==
    /\ circuit_breaker_enabled
    /\ es_breaker.state = "open"
    /\ Len(calls) > 0
    /\ calls[Len(calls)].before.state = "half_open"
    /\ calls[Len(calls)].before.success_count = 1
    /\ calls[Len(calls)].result = "error"

\* C15: reset() leaves the breaker closed with failure_count 0,
\* success_count 0 and no last failure time, and the next call is admitted.
C15_ResetCloses ==
    \A i \in 1..Len(calls) :
        calls[i].op = "reset"
        => /\ calls[i].after.state = "closed"
           /\ calls[i].after.failure_count = 0
           /\ calls[i].after.success_count = 0
           /\ calls[i].after.last_failure_time = "none"
           /\ \A funcOk \in BOOLEAN :
                 /\ call(calls[i].after, circuit_breaker_enabled,
                         funcOk).invoked
                 /\ call_async(calls[i].after, circuit_breaker_enabled,
                               funcOk).invoked

\* reset() was called on an open and on a closed breaker that had failures
\* counted, and the call after the first reset was admitted.
C15_Witness ==
    /\ circuit_breaker_enabled
    /\ \E i, j \in 1..Len(calls) :
          /\ i < j
          /\ calls[i].op = "reset" /\ calls[i].before.state = "open"
          /\ calls[i + 1].op \in CallOps /\ calls[i + 1].invoked
          /\ calls[j].op = "reset" /\ calls[j].before.state = "closed"
          /\ calls[j].before.failure_count > 0

\* C16: with the kill switch off, call() and call_async() invoke func in
\* every breaker state, never reject, and leave the breaker as it was
\* whether func returns or raises.
C16_KillSwitchPassesThrough ==
    ~circuit_breaker_enabled =>
        \A i \in 1..Len(calls) :
            calls[i].op \in CallOps
            => /\ calls[i].invoked
               /\ calls[i].result = (IF calls[i].ok THEN "ok" ELSE "error")
               /\ calls[i].after = calls[i].before

\* An open breaker whose timeout has not passed let a failing call() and a
\* failing call_async() through and is as it was.
C16_Witness ==
    /\ ~circuit_breaker_enabled
    /\ es_breaker.state = "open"
    /\ es_breaker.last_failure_time = "recent"
    /\ \E i, j \in 1..Len(calls) :
          /\ calls[i].op = "call" /\ calls[i].result = "error"
          /\ calls[j].op = "call_async" /\ calls[j].result = "error"

(***************************************************************************)
(* The query services: the keyset and offset listings of the repository    *)
(* (app/repositories/transaction_repository.py), the cursor codec          *)
(* (app/utils/cursor.py), the relational-primary service                   *)
(* (app/services/transaction_service.py) and the search-primary service    *)
(* (app/services/elasticsearch_transaction_service.py), both behind the    *)
(* page cache.  Ids stand for UUIDs in their order; a text is a sequence of *)
(* characters.                                                             *)
(***************************************************************************)
\* Records of user u1 in the stores.
MaxRecords == 5
\* Queries served in a run.
MaxQueries == 3
\* PaginationParams.page_size when the caller names none.
page_size_default == 20

Users == {"u1", "u2"}
Dates == {1, 2}
\* Values of limit and page_size, which the schema keeps in 1..100.
Limits == {1, 2}
Pages == {1, 2}
\* A query filters on status (part of the cache key) and on start_date.
Filters == [status : {"", "completed"}, start_date : {0, 2}, search_query : {<<>>}]

Record(id, created_at) ==
    [id |-> id,
     user_id |-> IF id <= MaxRecords THEN "u1" ELSE "u2",
     status |-> IF id % 2 = 0 THEN "completed" ELSE "pending",
     created_at |-> created_at]

\* The contents of the stores: MaxRecords records of u1, with created_at
\* values that tie, and one record of u2.
Tables ==
    {{Record(id, d[id]) : id \in 1..MaxRecords} \cup {Record(MaxRecords + 1, 2)} :
        d \in [1..MaxRecords -> Dates]}

\* A datetime is its seconds and microseconds since the epoch and its UTC
\* offset ("" when naive); a created_at column holds the microseconds since
\* the epoch.  A text is a sequence of tokens.
Datetime(n) ==
    [second |-> n \div 1000000, microsecond |-> n % 1000000, tzinfo |-> ""]

Instant(dt) == dt.second * 1000000 + dt.microsecond

\* The numbers that are written and read back, and the UTC offsets.
Numbers == 0..9 \cup {123456, 999999}
Offsets == {"+00:00", "+05:30"}

IsNumber(token) == \E n \in Numbers : ToString(n) = token
Number(token) == CHOOSE n \in Numbers : ToString(n) = token

\* An isoformat that leaves the microseconds out.
IsoformatToTheSecond(dt) ==
    <<ToString(dt.second)>>
    \o (IF dt.tzinfo # "" THEN <<dt.tzinfo>> ELSE <<>>)

\* datetime.isoformat: the microseconds are written when they are not 0,
\* the offset when the datetime is aware.
isoformat(dt) ==
    <<ToString(dt.second)>>
    \o (IF dt.microsecond # 0 THEN <<".", ToString(dt.microsecond)>> ELSE <<>>)
    \o (IF dt.tzinfo # "" THEN <<dt.tzinfo>> ELSE <<>>)

\* What follows the seconds and the microseconds in an ISO text.
IsoRest(text) ==
    IF Len(text) >= 2 /\ text[2] = "."
    THEN SubSeq(text, 4, Len(text))
    ELSE SubSeq(text, 2, Len(text))

\* Whether datetime.fromisoformat accepts the text.
IsIsoFormat(text) ==
    /\ Len(text) >= 1
    /\ IsNumber(text[1])
    /\ (Len(text) >= 2 /\ text[2] = ".") => (Len(text) >= 3 /\ IsNumber(text[3]))
    /\ IsoRest(text) \in {<<>>} \cup {<<z>> : z \in Offsets}

\* datetime.fromisoformat.
fromisoformat(text) ==
    [second |-> Number(text[1]),
     microsecond |-> IF Len(text) >= 2 /\ text[2] = "."
                     THEN Number(text[3]) ELSE 0,
     tzinfo |-> IF IsoRest(text) # <<>> THEN IsoRest(text)[1] ELSE ""]

\* str(id) of a UUID, and UUID(text), which raises on other texts.
RecordIds == 0..(MaxRecords + 2)
IsUuid(text) == \E n \in RecordIds : ToString(n) = text
UUIDType(text) == CHOOSE n \in RecordIds : ToString(n) = text

\* A cursor string: whether it is base64 (b64), whether the bytes are a JSON
\* object (json), the members of the object in the order of the text, and
\* its first 20 characters (head).
\* encode_cursor: base64 of the JSON text {"created_at": "...", "id": "..."}
\* (sort_keys=True); head is the base64 of the 15 bytes '{"created_at": '.
encode_cursor(transaction_id, created_at) ==
    [head |-> "eyJjcmVhdGVkX2F0Ijog", b64 |-> TRUE, json |-> TRUE,
     members |-> <<<<"created_at", isoformat(created_at)>>,
                   <<"id", <<transaction_id>>>>>>]

\* What decode_cursor returns for a cursor it does not accept.
InvalidCursor == [valid |-> FALSE, id |-> "", created_at |-> Datetime(0)]

\* The value of a member of the object.
Member(cursor, key) ==
    LET i == CHOOSE i \in 1..Len(cursor.members) : cursor.members[i][1] = key
    IN  cursor.members[i][2]

\* decode_cursor: None when the string is not base64, not JSON, lacks a
\* key or carries a created_at that is no ISO text.
decode_cursor(cursor) ==
    IF ~cursor.b64 \/ ~cursor.json
    THEN InvalidCursor
    ELSE IF \E key \in {"id", "created_at"} :
               \A i \in 1..Len(cursor.members) : cursor.members[i][1] # key
    THEN InvalidCursor
    ELSE IF ~IsIsoFormat(Member(cursor, "created_at"))
    THEN InvalidCursor
    ELSE [valid |-> TRUE,
          id |-> IF Member(cursor, "id") # <<>>
                 THEN Member(cursor, "id")[1] ELSE "",
          created_at |-> fromisoformat(Member(cursor, "created_at"))]

\* The position a cursor names in the order of the rows: cursor_created_at
\* and cursor_id of the listings.
CursorRow(cursor) ==
    [id |-> UUIDType(decode_cursor(cursor).id),
     created_at |-> Instant(decode_cursor(cursor).created_at)]

\* str.lower() over the characters in use.
Lower(text) ==
    [i \in 1..Len(text) |->
        CASE text[i] = "C" -> "c"
          [] text[i] = "T" -> "t"
          [] OTHER -> text[i]]

\* search_content ILIKE '%q%': q occurs in the text, whatever the case.
ILike(text, q) ==
    \E i \in 1..(Len(text) - Len(q) + 1) :
        Lower(SubSeq(text, i, i + Len(q) - 1)) = Lower(q)

\* TransactionRepository._apply_filters.
_apply_filters(rows, filters) ==
    {r \in rows :
        /\ filters.status # "" => r.status = filters.status
        /\ filters.start_date # 0 => r.created_at >= filters.start_date
        /\ filters.search_query # <<>> =>
               ILike(r.search_content, Lower(filters.search_query))}

\* a sorts before b under ORDER BY created_at DESC, id DESC.
Before(a, b) ==
    \/ a.created_at > b.created_at
    \/ a.created_at = b.created_at /\ a.id > b.id

RECURSIVE OrderByDesc(_)
OrderByDesc(rows) ==
    IF rows = {} THEN <<>>
    ELSE LET first == CHOOSE r \in rows : \A o \in rows \ {r} : Before(r, o)
         IN  <<first>> \o OrderByDesc(rows \ {first})

Take(seq, n) == SubSeq(seq, 1, Min(n, Len(seq)))

Drop(seq, n) == SubSeq(seq, n + 1, Len(seq))

\* A keyset listing whose cursor filter lets the cursor's own record through.
KeysetFromCursorInclusive(user_id, filters, cursor, limit) ==
    LET matching ==
            _apply_filters({r \in transactions : r.user_id = user_id}, filters)
        c == CursorRow(cursor)
        after ==
            IF cursor # NoCursor /\ decode_cursor(cursor).valid
            THEN {r \in matching :
                     \/ r.created_at < c.created_at
                     \/ r.created_at = c.created_at /\ r.id <= c.id}
            ELSE matching
        fetched == Take(OrderByDesc(after), limit + 1)
    IN  IF cursor # NoCursor /\ decode_cursor(cursor).valid
           /\ ~IsUuid(decode_cursor(cursor).id)
        THEN [transactions |-> <<>>, has_more |-> FALSE, raised |-> TRUE]
        ELSE [transactions |-> Take(fetched, limit),
              has_more |-> Len(fetched) > limit, raised |-> FALSE]

\* TransactionRepository.get_by_user_id_cursor: the rows and has_more, or
\* the ValueError of UUID(cursor_data["id"]) (raised).
get_by_user_id_cursor(user_id, filters, cursor, limit) ==
    LET matching ==
            _apply_filters({r \in transactions : r.user_id = user_id}, filters)
        c == CursorRow(cursor)
        after ==
            IF cursor # NoCursor /\ decode_cursor(cursor).valid
            THEN {r \in matching :
                     \/ r.created_at < c.created_at
                     \/ r.created_at = c.created_at /\ r.id < c.id}
            ELSE matching
        fetched == Take(OrderByDesc(after), limit + 1)
    IN  IF cursor # NoCursor /\ decode_cursor(cursor).valid
           /\ ~IsUuid(decode_cursor(cursor).id)
        THEN [transactions |-> <<>>, has_more |-> FALSE, raised |-> TRUE]
        ELSE [transactions |-> Take(fetched, limit),
              has_more |-> Len(fetched) > limit, raised |-> FALSE]

\* A listing whose offset is page * page_size.
GetByUserIdOffsetFromPage(user_id, filters, page, page_size) ==
    LET matching ==
            _apply_filters({r \in transactions : r.user_id = user_id}, filters)
    IN  [transactions |->
             Take(Drop(OrderByDesc(matching), page * page_size), page_size),
         total |-> Cardinality(matching)]

\* TransactionRepository.get_by_user_id; page 0 stands for no pagination.
get_by_user_id(user_id, filters, page, page_size) ==
    LET matching ==
            _apply_filters({r \in transactions : r.user_id = user_id}, filters)
    IN  [transactions |->
             IF page # 0
             THEN Take(Drop(OrderByDesc(matching), (page - 1) * page_size),
                       page_size)
             ELSE OrderByDesc(matching),
         total |-> Cardinality(matching)]

\* TransactionRepository.get_by_id.
get_by_id(transaction_id) == {r \in transactions : r.id = transaction_id}

\* SearchService.search with return_documents: the sort is on created_at
\* alone, so the index orders records of one created_at as it likes (tie).
RECURSIVE OrderByCreatedAtDesc(_, _)
OrderByCreatedAtDesc(docs, tie) ==
    IF docs = {} THEN <<>>
    ELSE LET first ==
                 CHOOSE r \in docs : \A o \in docs \ {r} :
                     \/ r.created_at > o.created_at
                     \/ /\ r.created_at = o.created_at
                        /\ IF tie = "desc" THEN r.id > o.id ELSE r.id < o.id
         IN  <<first>> \o OrderByCreatedAtDesc(docs \ {first}, tie)

\* The words of a text, in lower case, as the index analyses it.
RECURSIVE Words(_)
Words(text) ==
    IF text = <<>> THEN {}
    ELSE LET stop == IF \E i \in 1..Len(text) : text[i] = " "
                     THEN CHOOSE i \in 1..Len(text) :
                              /\ text[i] = " "
                              /\ \A j \in 1..(i - 1) : text[j] # " "
                     ELSE Len(text) + 1
             word == Lower(SubSeq(text, 1, stop - 1))
         IN  (IF word = <<>> THEN {} ELSE {word})
             \cup Words(SubSeq(text, stop + 1, Len(text)))

\* A match query with operator "or" and fuzziness AUTO: a word of the text
\* is a word of the query, up to one changed character from three
\* characters on.
Match(text, query) ==
    \E w \in Words(text), q \in Words(query) :
        /\ Len(w) = Len(q)
        /\ Cardinality({i \in 1..Len(w) : w[i] # q[i]})
              <= (IF Len(q) >= 3 THEN 1 ELSE 0)

\* The documents the index holds for a search, before sorting and paging.
Hits(user_id, filters) ==
    {d \in _apply_filters({r \in documents : r.user_id = user_id},
                          [filters EXCEPT !.search_query = <<>>]) :
        filters.search_query # <<>> => Match(d.search_content, filters.search_query)}

\* The search goes through the index breaker; a disabled adapter, an open
\* breaker and a failed call all give ([], 0).
search(user_id, filters, page, page_size, tie) ==
    LET r == call(es_breaker, circuit_breaker_enabled, es_up)
        matching == Hits(user_id, filters)
    IN  IF ~search_enabled
        THEN [documents |-> <<>>, total |-> 0, breaker |-> es_breaker]
        ELSE IF r.result # "ok"
        THEN [documents |-> <<>>, total |-> 0, breaker |-> r.breaker]
        ELSE [documents |->
                  Take(Drop(OrderByCreatedAtDesc(matching, tie),
                            (page - 1) * page_size), page_size),
              total |-> Cardinality(matching), breaker |-> r.breaker]

\* A keyset page whose next_cursor is set whenever the page has an item.
NextCursorWheneverItems(items, has_more, limit) ==
    [items |-> items,
     next_cursor |-> IF items # <<>>
                     THEN encode_cursor(ToString(items[Len(items)].id),
                                        Datetime(items[Len(items)].created_at))
                     ELSE NoCursor,
     has_more |-> has_more, limit |-> limit]

\* The page a service returns for a keyset query.
CursorPaginatedResponse(items, has_more, limit) ==
    [items |-> items,
     next_cursor |-> IF items # <<>> /\ has_more
                     THEN encode_cursor(ToString(items[Len(items)].id),
                                        Datetime(items[Len(items)].created_at))
                     ELSE NoCursor,
     has_more |-> has_more, limit |-> limit]

\* The page a service returns for an offset query; without pagination the
\* page is 1 and the page size the default.
PaginatedResponse(items, total, page, page_size) ==
    LET size == IF page # 0 THEN page_size ELSE page_size_default
    IN  [items |-> items, total |-> total,
         page |-> IF page # 0 THEN page ELSE 1, page_size |-> size,
         total_pages |-> (total + size - 1) \div size]

\* A get that answers from a local copy whatever the server says.
CacheGetServingWhenDown(key, b) ==
    LET r == call(b, circuit_breaker_enabled, redis_up)
    IN  IF key \in DOMAIN page_cache
        THEN [hit |-> TRUE, value |-> page_cache[key], breaker |-> r.breaker]
        ELSE [hit |-> FALSE, value |-> 0, breaker |-> r.breaker]

\* CacheService.get: through the cache breaker b; a disabled cache, an open
\* breaker, a failed call and a missing key all give "not present".
CacheGet(key, b) ==
    LET r == call(b, circuit_breaker_enabled, redis_up)
    IN  IF ~cache_enabled
        THEN [hit |-> FALSE, value |-> 0, breaker |-> b]
        ELSE IF r.result = "ok" /\ key \in DOMAIN page_cache
        THEN [hit |-> TRUE, value |-> page_cache[key], breaker |-> r.breaker]
        ELSE [hit |-> FALSE, value |-> 0, breaker |-> r.breaker]

\* CacheService.set, through the cache breaker b.
CacheSet(key, value, b) ==
    LET r == call(b, circuit_breaker_enabled, redis_up)
    IN  IF ~cache_enabled
        THEN [cache |-> page_cache, breaker |-> b]
        ELSE IF r.result = "ok"
        THEN [cache |-> (key :> value) @@ page_cache, breaker |-> r.breaker]
        ELSE [cache |-> page_cache, breaker |-> r.breaker]

\* A text cut at its colons.  A key is ":".join(parts), so two keys are the
\* same string exactly when their parts, cut at the colons, are the same
\* sequence.  Of the texts in use only one user id holds a colon.
Segments(text) ==
    IF text = "u1:status:completed" THEN <<"u1", "status", "completed">>
    ELSE <<text>>

\* The parts of a key that name the filters; a filter not set adds none.
FilterParts(filters) ==
    (IF filters.status # "" THEN <<"status", filters.status>> ELSE <<>>)
    \o (IF filters.search_query # <<>>
        THEN <<"search">> \o filters.search_query ELSE <<>>)

\* TransactionService._build_cache_key and _build_cache_key_cursor: a key
\* is the sequence of its parts between colons; the cursor key carries the
\* first 20 characters of the cursor.
_build_cache_key(user_id, filters, page, page_size) ==
    <<"transactions", "user">> \o Segments(user_id) \o FilterParts(filters)
    \o (IF page # 0
        THEN <<"page", ToString(page), "size", ToString(page_size)>>
        ELSE <<>>)

_build_cache_key_cursor(user_id, filters, limit, cursor) ==
    <<"transactions", "user">> \o Segments(user_id) \o <<"cursor">>
    \o FilterParts(filters)
    \o <<"limit", ToString(limit)>>
    \o (IF cursor # NoCursor THEN <<"cursor", cursor.head>> ELSE <<>>)

\* TransactionService.get_transactions_cursor, for queries without text
\* search: the page, the new cache and the new cache breaker, or the
\* exception of the listing (raised).
get_transactions_cursor(user_id, filters, limit, cursor) ==
    LET cache_key == _build_cache_key_cursor(user_id, filters, limit, cursor)
        cached_result == CacheGet(cache_key, redis_breaker)
        listed == get_by_user_id_cursor(user_id, filters, cursor, limit)
        result == CursorPaginatedResponse(listed.transactions, listed.has_more,
                                          limit)
        stored == CacheSet(cache_key, result, cached_result.breaker)
    IN  IF cached_result.hit
        THEN [hit |-> TRUE, page |-> cached_result.value, cache |-> page_cache,
              redis_breaker |-> cached_result.breaker, raised |-> FALSE]
        ELSE IF listed.raised
        THEN [hit |-> FALSE, page |-> result, cache |-> page_cache,
              redis_breaker |-> cached_result.breaker, raised |-> TRUE]
        ELSE [hit |-> FALSE, page |-> result, cache |-> stored.cache,
              redis_breaker |-> stored.breaker, raised |-> FALSE]

\* The rows get_transactions hands to the response for a text search: the
\* relational search when the index adapter is disabled, otherwise the
\* rows of the ids the index returns.
SearchRows(user_id, filters, page, page_size, tie) ==
    LET found == search(user_id, filters, IF page # 0 THEN page ELSE 1,
                        IF page # 0 THEN page_size ELSE page_size_default, tie)
        listed == get_by_user_id(user_id, filters, page, page_size)
        ids == [i \in 1..Len(found.documents) |-> found.documents[i].id]
        rows == SelectSeq([i \in 1..Len(ids) |-> get_by_id(ids[i])],
                          LAMBDA tx : tx # {})
    IN  IF ~search_enabled
        THEN [transactions |-> listed.transactions, total |-> listed.total,
              es_breaker |-> es_breaker]
        ELSE [transactions |->
                  [i \in 1..Len(rows) |-> CHOOSE tx \in rows[i] : TRUE],
              total |-> found.total, es_breaker |-> found.breaker]

\* TransactionService.get_transactions: the page, the new cache and the
\* new breakers.
get_transactions(user_id, filters, page, page_size, tie) ==
    LET cache_key == _build_cache_key(user_id, filters, page, page_size)
        cached_result == CacheGet(cache_key, redis_breaker)
        listed == IF filters.search_query # <<>>
                  THEN SearchRows(user_id, filters, page, page_size, tie)
                  ELSE [transactions |->
                            get_by_user_id(user_id, filters, page,
                                           page_size).transactions,
                        total |->
                            get_by_user_id(user_id, filters, page,
                                           page_size).total,
                        es_breaker |-> es_breaker]
        result == PaginatedResponse(listed.transactions, listed.total, page,
                                    page_size)
        stored == CacheSet(cache_key, result, cached_result.breaker)
    IN  IF cached_result.hit
        THEN [hit |-> TRUE, page |-> cached_result.value, cache |-> page_cache,
              redis_breaker |-> cached_result.breaker,
              es_breaker |-> es_breaker]
        ELSE [hit |-> FALSE, page |-> result, cache |-> stored.cache,
              redis_breaker |-> stored.breaker,
              es_breaker |-> listed.es_breaker]

\* ElasticsearchTransactionService._build_cache_key_cursor.
EsBuildCacheKeyCursor(user_id, filters, limit, cursor) ==
    <<"transactions", "es", "user">> \o Segments(user_id) \o <<"cursor">>
    \o FilterParts(filters)
    \o <<"limit", ToString(limit)>>
    \o (IF cursor # NoCursor THEN <<"cursor", cursor.head>> ELSE <<>>)

\* ElasticsearchTransactionService.get_transactions_cursor: the first
\* limit + 1 documents of the search, then the cursor filter in memory.
EsGetTransactionsCursor(user_id, filters, limit, cursor, tie) ==
    LET cache_key == EsBuildCacheKeyCursor(user_id, filters, limit, cursor)
        cached_result == CacheGet(cache_key, redis_breaker)
        found == search(user_id, filters, 1, limit + 1, tie).documents
        c == CursorRow(cursor)
        filtered_docs ==
            IF cursor # NoCursor /\ decode_cursor(cursor).valid
            THEN SelectSeq(found,
                           LAMBDA doc :
                               \/ doc.created_at < c.created_at
                               \/ /\ doc.created_at = c.created_at
                                  /\ doc.id < c.id)
            ELSE found
        result == CursorPaginatedResponse(Take(filtered_docs, limit),
                                          Len(filtered_docs) > limit, limit)
        stored == CacheSet(cache_key, result, cached_result.breaker)
    IN  IF cached_result.hit
        THEN [hit |-> TRUE, page |-> cached_result.value, cache |-> page_cache,
              redis_breaker |-> cached_result.breaker,
              es_breaker |-> es_breaker]
        ELSE [hit |-> FALSE, page |-> result, cache |-> stored.cache,
              redis_breaker |-> stored.breaker,
              es_breaker |-> search(user_id, filters, 1, limit + 1, tie).breaker]

\* get_transaction_service: the search-primary service when the flag is
\* set and the index adapter is in service.
SearchPrimary == use_elasticsearch_as_primary /\ search_enabled

\* The walk a client makes of the pages: a query without cursor starts it,
\* a query with the cursor of the page before continues it.
WalkAfter(filters, limit, cursor, page) ==
    IF cursor = NoCursor
    THEN [active |-> TRUE, filters |-> filters, limit |-> limit,
          items |-> page.items, pages |-> 1, done |-> ~page.has_more]
    ELSE IF /\ walk.active /\ ~walk.done
            /\ filters = walk.filters /\ limit = walk.limit
    THEN [walk EXCEPT !.items = @ \o page.items, !.pages = @ + 1,
                      !.done = ~page.has_more]
    ELSE NoWalk

KeysetAnswer(filters, limit, cursor, r) ==
    [kind |-> "cursor", user_id |-> "u1", filters |-> filters, limit |-> limit,
     cursor |-> cursor, page |-> 0, hit |-> r.hit, items |-> r.page.items,
     next_cursor |-> r.page.next_cursor, has_more |-> r.page.has_more,
     total |-> 0, total_pages |-> 0]

\* GET /transactions with cursor or limit, served by the relational-primary
\* service for user u1: the first page, or the page after the one before.
GetTransactionsCursor ==
    /\ ~SearchPrimary
    /\ queries < MaxQueries
    /\ \E filters \in Filters, limit \in Limits,
          cursor \in {NoCursor, response.next_cursor} :
          \E r \in {get_transactions_cursor("u1", filters, limit, cursor)} :
              /\ page_cache' = r.cache
              /\ redis_breaker' = r.redis_breaker
              /\ response' = KeysetAnswer(filters, limit, cursor, r)
              /\ walk' = WalkAfter(filters, limit, cursor, r.page)
    /\ queries' = queries + 1
    /\ UNCHANGED <<transactions, documents, use_elasticsearch_as_primary,
                   pipeline_vars, es_breaker, circuit_breaker_enabled, calls,
                   kafka_breaker, events_enabled, redis_up, es_up, published,
                   reply>>

\* The same request served by the search-primary service.
GetTransactionsCursorEs ==
    /\ SearchPrimary
    /\ queries < MaxQueries
    /\ \E filters \in Filters, limit \in Limits,
          cursor \in {NoCursor, response.next_cursor}, tie \in {"asc", "desc"} :
          \E r \in {EsGetTransactionsCursor("u1", filters, limit, cursor, tie)} :
              /\ page_cache' = r.cache
              /\ redis_breaker' = r.redis_breaker
              /\ es_breaker' = r.es_breaker
              /\ response' = KeysetAnswer(filters, limit, cursor, r)
              /\ walk' = WalkAfter(filters, limit, cursor, r.page)
    /\ queries' = queries + 1
    /\ UNCHANGED <<transactions, documents, use_elasticsearch_as_primary,
                   pipeline_vars, circuit_breaker_enabled, calls,
                   kafka_breaker, events_enabled, redis_up, es_up, published,
                   reply>>

\* GET /transactions with page and page_size, served by the
\* relational-primary service.
GetTransactions ==
    /\ ~SearchPrimary
    /\ queries < MaxQueries
    /\ \E filters \in Filters, page \in Pages, page_size \in Limits :
          \E r \in {get_transactions("u1", filters, page, page_size, "desc")} :
              /\ page_cache' = r.cache
              /\ redis_breaker' = r.redis_breaker
              /\ es_breaker' = r.es_breaker
              /\ response' =
                   [kind |-> "offset", user_id |-> "u1", filters |-> filters,
                    limit |-> page_size, cursor |-> NoCursor, page |-> page,
                    hit |-> r.hit, items |-> r.page.items,
                    next_cursor |-> NoCursor, has_more |-> FALSE,
                    total |-> r.page.total,
                    total_pages |-> r.page.total_pages]
    /\ walk' = NoWalk
    /\ queries' = queries + 1
    /\ UNCHANGED <<transactions, documents, use_elasticsearch_as_primary,
                   pipeline_vars, circuit_breaker_enabled, calls,
                   kafka_breaker, events_enabled, redis_up, es_up, published,
                   reply>>

\* Both stores hold the same records; the flag and the cache are as the
\* process found them at its start.
InitQuery ==
    /\ PipelineAtStart
    /\ search_enabled = TRUE
    /\ cache_enabled \in BOOLEAN
    /\ es_breaker = NewBreaker
    /\ circuit_breaker_enabled = FALSE
    /\ calls = <<>>
    /\ ServicesAtStart
    /\ transactions \in Tables
    /\ documents = transactions
    /\ use_elasticsearch_as_primary \in BOOLEAN
    /\ page_cache = <<>>
    /\ response = NoResponse
    /\ walk = NoWalk
    /\ queries = 0

NextQuery ==
    \/ GetTransactionsCursor
    \/ GetTransactionsCursorEs
    \/ GetTransactions

SpecQuery == InitQuery /\ [][NextQuery]_vars

(***************************************************************************)
(* Properties of the query services.                                       *)
(***************************************************************************)
Range(seq) == {seq[i] : i \in 1..Len(seq)}

\* The records of a user that pass the filters.
Matching(user_id, filters) ==
    _apply_filters({r \in transactions : r.user_id = user_id}, filters)

\* Every cursor that decodes: of a record of the store or of none.
Cursors ==
    {encode_cursor(ToString(id), Datetime(created_at)) :
        id \in 0..(MaxRecords + 2), created_at \in 0..3}

\* listed is the page of the canonical order strictly after the cursor:
\* records after the cursor only, in strictly descending order, as many as
\* limit allows, none skipped; has_more says whether a record follows the
\* last one.
IsKeysetPage(listed, user_id, filters, cursor, limit) ==
    LET c == CursorRow(cursor)
        after == IF cursor = NoCursor
                 THEN Matching(user_id, filters)
                 ELSE {r \in Matching(user_id, filters) : Before(c, r)}
        items == listed.transactions
    IN  /\ Range(items) \subseteq after
        /\ \A i, j \in 1..Len(items) : i < j => Before(items[i], items[j])
        /\ Len(items) = Min(limit, Cardinality(after))
        /\ \A r \in after \ Range(items) :
              \A i \in 1..Len(items) : Before(items[i], r)
        /\ listed.has_more
           <=> /\ items # <<>>
               /\ \E r \in after : Before(items[Len(items)], r)

\* C17: for every user, filter, limit and cursor that decodes, the keyset
\* listing of the repository is the page of the canonical order strictly
\* after the cursor, and has_more is true exactly when a matching record
\* follows the last one returned.  The stores do not change here, so every
\* input is tried on the stores as they start, and the listing behind each
\* answer of the relational-primary service is checked as it is made.
C17_KeysetListingIsCanonicalPage ==
    /\ queries = 0 =>
          \A user_id \in Users, filters \in Filters, limit \in Limits,
             cursor \in Cursors \cup {NoCursor} :
              IsKeysetPage(get_by_user_id_cursor(user_id, filters, cursor, limit),
                           user_id, filters, cursor, limit)
    /\ (response.kind = "cursor" /\ ~response.hit /\ ~SearchPrimary) =>
          IsKeysetPage([transactions |-> response.items,
                        has_more |-> response.has_more],
                       response.user_id, response.filters, response.cursor,
                       response.limit)

\* A second page of two records was listed from a cursor whose record ties
\* on created_at with the first record of the page, and more follow.
C17_Witness ==
    /\ response.kind = "cursor" /\ ~response.hit /\ ~SearchPrimary
    /\ response.cursor # NoCursor
    /\ response.limit = 2
    /\ Len(response.items) = 2
    /\ response.has_more
    /\ CursorRow(response.cursor).created_at = response.items[1].created_at
    /\ response.items[1].created_at = response.items[2].created_at

IsPrefix(a, b) == Len(a) <= Len(b) /\ a = SubSeq(b, 1, Len(a))

\* C18: the pages walked from the first one through the relational-primary
\* service, each asked for with the next_cursor of the one before and with
\* no other query made, are the canonical order of the matching records
\* without gap or repeat, and all of it once has_more is false.
C18_WalkReturnsEachRecordOnce ==
    (~SearchPrimary /\ walk.active /\ walk.pages = queries) =>
        LET canonical == OrderByDesc(Matching("u1", walk.filters))
        IN  /\ IsPrefix(walk.items, canonical)
            /\ walk.done => walk.items = canonical

\* C19: over the same records, the page the search-primary service computes
\* for a keyset query is the page the relational-primary service computes
\* for it.
C19_SearchPrimaryAnswersAsRelational ==
    (response.kind = "cursor" /\ ~response.hit /\ SearchPrimary
     /\ documents = transactions) =>
        LET listed == get_by_user_id_cursor(response.user_id, response.filters,
                                            response.cursor, response.limit)
            page == CursorPaginatedResponse(listed.transactions,
                                            listed.has_more, response.limit)
        IN  /\ response.items = page.items
            /\ response.has_more = page.has_more
            /\ response.next_cursor = page.next_cursor

\* C20: the page the relational-primary service returns on a cache hit is
\* the page it would compute from the stores for the same query.
C20_CacheHitEqualsRecomputed ==
    (response.hit /\ ~SearchPrimary) =>
        IF response.kind = "cursor"
        THEN LET listed == get_by_user_id_cursor(response.user_id,
                                                 response.filters,
                                                 response.cursor, response.limit)
                 page == CursorPaginatedResponse(listed.transactions,
                                                 listed.has_more, response.limit)
             IN  /\ response.items = page.items
                 /\ response.has_more = page.has_more
                 /\ response.next_cursor = page.next_cursor
        ELSE LET listed == get_by_user_id(response.user_id, response.filters,
                                          response.page, response.limit)
             IN  /\ response.items = listed.transactions
                 /\ response.total = listed.total

(***************************************************************************)
(* The cursor codec on its own, and keyset queries with cursors a client   *)
(* makes up.                                                               *)
(***************************************************************************)
\* The datetimes encoded: with and without microseconds, naive and aware.
Datetimes ==
    [second : {0, 1}, microsecond : {0, 1, 123456, 999999},
     tzinfo : {""} \cup Offsets]

\* A cursor as encode_cursor makes it, with one member replaced or removed.
ValidCursor == encode_cursor("3", Datetime(2))

\* Strings that are no cursor: not base64 ("not_base64"), base64 of no JSON
\* object ("12345"), a cursor cut short, an object without "id", one
\* without "created_at", one whose id is no UUID, one whose created_at is no
\* ISO text.
NotBase64 == [head |-> "not_base64", b64 |-> FALSE, json |-> FALSE, members |-> <<>>]
NotJson == [head |-> "MTIzNDU=", b64 |-> TRUE, json |-> FALSE, members |-> <<>>]
Truncated == [ValidCursor EXCEPT !.json = FALSE, !.members = <<>>]
MissingId == [ValidCursor EXCEPT !.members = <<ValidCursor.members[1]>>]
MissingCreatedAt ==
    [ValidCursor EXCEPT !.head = "eyJpZCI6ICIzIn0=",
                        !.members = <<ValidCursor.members[2]>>]
IdNotUuid == [ValidCursor EXCEPT !.members[2] = <<"id", <<"abc">>>>]
CreatedAtNotIso ==
    [ValidCursor EXCEPT !.members[1] = <<"created_at", <<"yesterday">>>>]

MalformedCursors ==
    {NotBase64, NotJson, Truncated, MissingId, MissingCreatedAt, IdNotUuid,
     CreatedAtNotIso}

\* decode_cursor(encode_cursor(id, created_at)) for an id and a datetime.
EncodeDecode ==
    /\ \E id \in RecordIds, created_at \in Datetimes :
          reply' = [op |-> "roundtrip", id |-> ToString(id),
                    created_at |-> created_at,
                    decoded |-> decode_cursor(encode_cursor(ToString(id),
                                                            created_at))]
    /\ UNCHANGED <<pipeline_vars, es_breaker, circuit_breaker_enabled, calls,
                   query_vars, redis_breaker, kafka_breaker, events_enabled,
                   redis_up, es_up, published>>

\* GET /transactions with limit and a cursor of the client's making, served
\* by the relational-primary service; an exception of the service is a 500.
GetTransactionsWithCursor ==
    /\ ~SearchPrimary
    /\ queries < MaxQueries
    /\ \E filters \in {NoFilters}, limit \in Limits,
          cursor \in MalformedCursors \cup {ValidCursor} :
          \E r \in {get_transactions_cursor("u1", filters, limit, cursor)} :
              /\ page_cache' = r.cache
              /\ redis_breaker' = r.redis_breaker
              /\ reply' = [op |-> "keyset", filters |-> filters,
                           limit |-> limit, cursor |-> cursor,
                           decoded |-> decode_cursor(cursor),
                           status |-> IF r.raised THEN 500 ELSE 200,
                           hit |-> r.hit, items |-> r.page.items,
                           has_more |-> r.page.has_more,
                           next_cursor |-> r.page.next_cursor]
    /\ queries' = queries + 1
    /\ UNCHANGED <<transactions, documents, use_elasticsearch_as_primary,
                   response, walk, pipeline_vars, es_breaker,
                   circuit_breaker_enabled, calls, kafka_breaker,
                   events_enabled, redis_up, es_up, published>>

NextCodec == EncodeDecode

NextCursor == GetTransactionsWithCursor

\* The stores hold records that tie on created_at; the relational-primary
\* service answers.
InitCursor ==
    /\ PipelineAtStart
    /\ search_enabled = TRUE
    /\ cache_enabled \in BOOLEAN
    /\ es_breaker = NewBreaker
    /\ circuit_breaker_enabled = FALSE
    /\ calls = <<>>
    /\ ServicesAtStart
    /\ transactions \in {t \in Tables : \A r \in t : r.created_at = 2}
    /\ documents = transactions
    /\ use_elasticsearch_as_primary = FALSE
    /\ page_cache = <<>>
    /\ response = NoResponse
    /\ walk = NoWalk
    /\ queries = 0

SpecCodec == InitCursor /\ [][NextCodec]_vars

SpecCursor == InitCursor /\ [][NextCursor]_vars

\* C23: decoding an encoded cursor gives back the id and the datetime that
\* were encoded, microseconds and UTC offset included.
C23_CursorRoundTrip ==
    reply.op = "roundtrip" =>
        /\ reply.decoded.valid
        /\ reply.decoded.id = reply.id
        /\ reply.decoded.created_at = reply.created_at

\* An aware datetime with microseconds went through the codec.
C23_Witness ==
    /\ reply.op = "roundtrip"
    /\ reply.created_at.microsecond = 123456
    /\ reply.created_at.tzinfo = "+05:30"
    /\ reply.decoded.valid

\* C24: a keyset query with a malformed cursor is answered as the query
\* without cursor: decode_cursor rejects the cursor, nothing is raised and
\* the page computed is the first page.
C24_MalformedCursorGivesFirstPage ==
    (reply.op = "keyset" /\ reply.cursor \in MalformedCursors /\ ~reply.hit) =>
        LET first == get_by_user_id_cursor("u1", reply.filters, NoCursor,
                                           reply.limit)
            page == CursorPaginatedResponse(first.transactions, first.has_more,
                                            reply.limit)
        IN  /\ ~reply.decoded.valid
            /\ reply.status = 200
            /\ reply.items = page.items
            /\ reply.has_more = page.has_more
            /\ reply.next_cursor = page.next_cursor

\* C25: in a keyset page of either service next_cursor is set only when
\* has_more is, and it decodes to the id and created_at of the last item.
C25_NextCursorOnlyWhenMore ==
    (response.kind = "cursor" /\ response.next_cursor # NoCursor) =>
        /\ response.has_more
        /\ response.items # <<>>
        /\ decode_cursor(response.next_cursor) =
              [valid |-> TRUE,
               id |-> ToString(response.items[Len(response.items)].id),
               created_at |->
                   Datetime(response.items[Len(response.items)].created_at)]

\* The search-primary service returned a page with more to follow.
C25_Witness ==
    /\ response.kind = "cursor"
    /\ response.next_cursor # NoCursor
    /\ response.has_more
    /\ SearchPrimary

(***************************************************************************)
(* The API: POST /transactions, GET /transactions/{id}                     *)
(* (app/api/routes/transactions.py), the listing of the relational-primary *)
(* service as its callers use it, the publisher                            *)
(* (app/services/event_service.py) and GET /health                         *)
(* (app/api/routes/health.py), with a cache and an index that come and go. *)
(***************************************************************************)
\* Requests served in a run.
MaxRequests == 3

\* The ids the store gives to the records it creates.
CreatedIds == {3, 4}

CafeBar == <<"C", "a", "f", "e", " ", "b", "a", "r">>
Taxi == <<"T", "a", "x", "i">>

ApiRecord(id, user_id, created_at, search_content) ==
    [id |-> id, user_id |-> user_id, status |-> "completed",
     created_at |-> created_at, search_content |-> search_content]

\* The records in both stores when the process starts.
ApiTable == {ApiRecord(1, "u1", 1, CafeBar), ApiRecord(2, "u2", 1, Taxi)}

\* The listings asked for: with and without text search.
ApiFilters ==
    [status : {""}, start_date : {0}, search_query : {<<>>, <<"C", "a", "f", "e">>}]

\* TransactionStrategy.validate_metadata: every strategy accepts.
validate_metadata(metadata) == TRUE

\* SearchService.index_transaction on the documents the query side reads:
\* through the index breaker, failures swallowed.
IndexDocument(doc) ==
    LET r == call(es_breaker, circuit_breaker_enabled, es_up)
    IN  IF ~search_enabled
        THEN [documents |-> documents, breaker |-> es_breaker]
        ELSE IF r.result = "ok"
        THEN [documents |-> {d \in documents : d.id # doc.id} \cup {doc},
              breaker |-> r.breaker]
        ELSE [documents |-> documents, breaker |-> r.breaker]

\* EventService._publish_event: the key is the user_id of the transaction
\* dict, none ("") when the dict has no user_id; the producer puts the
\* message on partition p.  owner is the user the transaction belongs to.
_publish_event(event_type, transaction, owner, kafka_ok, p) ==
    LET r == call(kafka_breaker, circuit_breaker_enabled, kafka_ok)
        partition_key == transaction.user_id
    IN  IF ~events_enabled
        THEN [sent |-> FALSE, breaker |-> kafka_breaker, published |-> published]
        ELSE IF r.result = "ok"
        THEN [sent |-> TRUE, breaker |-> r.breaker,
              published |->
                  Append(published,
                         [event_type |-> event_type, owner |-> owner,
                          key |-> partition_key, partition |-> p])]
        ELSE [sent |-> FALSE, breaker |-> r.breaker, published |-> published]

publish_transaction_created(transaction, kafka_ok, p) ==
    _publish_event(CREATED, transaction, transaction.user_id, kafka_ok, p)

publish_transaction_updated(transaction, kafka_ok, p) ==
    _publish_event(UPDATED, transaction, transaction.user_id, kafka_ok, p)

\* publish_transaction_deleted publishes the dict {"id": transaction_id}.
publish_transaction_deleted(transaction_id, owner, kafka_ok, p) ==
    _publish_event(DELETED,
                   [id |-> transaction_id, user_id |-> "", created_at |-> 0],
                   owner, kafka_ok, p)

\* Whether a key matches the glob made of the parts of prefix and "*".
Matches(prefix, key) ==
    /\ Len(key) > Len(prefix)
    /\ SubSeq(key, 1, Len(prefix)) = prefix

\* A delete_pattern that deletes nothing.
DeletePatternKeepsAll(prefix) == page_cache

\* CacheService.delete_pattern: not behind the breaker, failures swallowed.
delete_pattern(prefix) ==
    LET kept == {k \in DOMAIN page_cache : ~Matches(prefix, k)}
    IN  IF cache_enabled /\ redis_up
        THEN IF kept = {} THEN <<>> ELSE [k \in kept |-> page_cache[k]]
        ELSE page_cache

\* TransactionService.create_transaction: the stores, the breakers, the
\* history of the publisher and the cache after it, or the ValueError of a
\* metadata reject (raised).
create_transaction(transaction_data, id, now, kafka_ok, p) ==
    LET transaction == ApiRecord(id, transaction_data.user_id, now,
                                 transaction_data.search_content)
        indexed == IndexDocument(transaction)
        sent == publish_transaction_created(transaction, kafka_ok, p)
    IN  IF transaction_data.metadata # "" /\ ~validate_metadata(transaction_data.metadata)
        THEN [raised |-> TRUE, transactions |-> transactions,
              documents |-> documents, es_breaker |-> es_breaker,
              kafka_breaker |-> kafka_breaker, published |-> published,
              cache |-> page_cache]
        ELSE [raised |-> FALSE,
              transactions |-> transactions \cup {transaction},
              documents |-> indexed.documents, es_breaker |-> indexed.breaker,
              kafka_breaker |-> sent.breaker, published |-> sent.published,
              cache |-> delete_pattern(<<"transactions", "user",
                                         transaction_data.user_id>>)]

\* TransactionService.get_transaction.
get_transaction(transaction_id) ==
    LET cache_key == <<"transaction", ToString(transaction_id)>>
        cached == CacheGet(cache_key, redis_breaker)
        found == get_by_id(transaction_id)
        transaction == CHOOSE tx \in found : TRUE
        stored == CacheSet(cache_key, transaction, cached.breaker)
    IN  IF cached.hit
        THEN [found |-> TRUE, hit |-> TRUE, transaction |-> cached.value,
              cache |-> page_cache, redis_breaker |-> cached.breaker]
        ELSE IF found = {}
        THEN [found |-> FALSE, hit |-> FALSE, transaction |-> 0,
              cache |-> page_cache, redis_breaker |-> cached.breaker]
        ELSE [found |-> TRUE, hit |-> FALSE, transaction |-> transaction,
              cache |-> stored.cache, redis_breaker |-> stored.breaker]

\* A route that answers whoever asks.
StatusWithoutOwnerCheck(current_user_id, r) ==
    IF ~r.found THEN 404 ELSE 200

\* The status of GET /transactions/{id} for what the service returned.
GetTransactionStatus(current_user_id, r) ==
    IF ~r.found THEN 404
    ELSE IF current_user_id # "" /\ r.transaction.user_id # current_user_id
    THEN 403
    ELSE 200

\* How the cache stands for a get: "disabled", "open", "error" (the server
\* does not answer), "missing" or "present".
CacheState(key) ==
    LET r == call(redis_breaker, circuit_breaker_enabled, redis_up)
    IN  IF ~cache_enabled THEN "disabled"
        ELSE IF r.result # "ok" THEN r.result
        ELSE IF key \in DOMAIN page_cache THEN "present"
        ELSE "missing"

\* How the index stands for a search: "disabled", "open", "error" or "ok".
IndexState ==
    IF ~search_enabled THEN "disabled"
    ELSE call(es_breaker, circuit_breaker_enabled, es_up).result

\* POST /transactions: the user_id of the body gives way to the one of the
\* token (current_user_id, "" without token).
PostTransaction ==
    /\ queries < MaxRequests
    /\ \E current_user_id \in {""} \cup Users, user_id \in Users,
          id \in CreatedIds, now \in {2}, kafka_ok \in BOOLEAN,
          p \in Partitions :
          LET transaction_data ==
                  [user_id |-> IF current_user_id # "" THEN current_user_id
                               ELSE user_id,
                   metadata |-> "", search_content |-> CafeBar]
          IN  /\ \A tx \in transactions : tx.id # id /\ tx.created_at <= now
              /\ p \in PartitionsOf([transaction |-> transaction_data])
              /\ \E r \in {create_transaction(transaction_data, id, now,
                                              kafka_ok, p)} :
                  /\ transactions' = r.transactions
                  /\ documents' = r.documents
                  /\ es_breaker' = r.es_breaker
                  /\ kafka_breaker' = r.kafka_breaker
                  /\ published' = r.published
                  /\ page_cache' = r.cache
                  /\ reply' = [op |-> "create",
                               status |-> IF r.raised THEN 400 ELSE 201,
                               current_user_id |-> current_user_id,
                               user_id |-> user_id, id |-> id,
                               redis_up |-> redis_up]
    /\ queries' = queries + 1
    /\ UNCHANGED <<pipeline_vars, circuit_breaker_enabled, calls,
                   use_elasticsearch_as_primary, response, walk, redis_breaker,
                   events_enabled, redis_up, es_up>>

\* TransactionService.get_transactions as its callers use it, with and
\* without pagination (page 0).
ListTransactions ==
    /\ queries < MaxRequests
    /\ \E filters \in ApiFilters, page \in {0, 1} :
          \E r \in {get_transactions("u1", filters, page, 2, "desc")} :
              /\ page_cache' = r.cache
              /\ redis_breaker' = r.redis_breaker
              /\ es_breaker' = r.es_breaker
              /\ reply' = [op |-> "list", user_id |-> "u1",
                           filters |-> filters, page |-> page,
                           page_size |-> 2, hit |-> r.hit,
                           cache |-> CacheState(_build_cache_key("u1", filters,
                                                                 page, 2)),
                           index |-> IndexState,
                           items |-> r.page.items, total |-> r.page.total]
    /\ queries' = queries + 1
    /\ UNCHANGED <<pipeline_vars, circuit_breaker_enabled, calls, transactions,
                   documents, use_elasticsearch_as_primary, response, walk,
                   kafka_breaker, events_enabled, redis_up, es_up, published>>

\* GET /transactions/{id} with or without token.
GetTransaction ==
    /\ queries < MaxRequests
    /\ \E current_user_id \in {""} \cup Users, transaction_id \in 1..4 :
          \E r \in {get_transaction(transaction_id)} :
              /\ page_cache' = r.cache
              /\ redis_breaker' = r.redis_breaker
              /\ reply' = [op |-> "get",
                           status |-> GetTransactionStatus(current_user_id, r),
                           current_user_id |-> current_user_id,
                           id |-> transaction_id, hit |-> r.hit]
    /\ queries' = queries + 1
    /\ UNCHANGED <<pipeline_vars, es_breaker, circuit_breaker_enabled, calls,
                   transactions, documents, use_elasticsearch_as_primary,
                   response, walk, kafka_breaker, events_enabled, redis_up,
                   es_up, published>>

\* EventService.publish_transaction_updated and publish_transaction_deleted
\* for a record of the store.
PublishEvent ==
    /\ queries < MaxRequests
    /\ \E tx \in transactions, event_type \in {UPDATED, DELETED},
          kafka_ok \in BOOLEAN, p \in Partitions :
          LET r == IF event_type = UPDATED
                   THEN publish_transaction_updated(tx, kafka_ok, p)
                   ELSE publish_transaction_deleted(tx.id, tx.user_id,
                                                    kafka_ok, p)
              key == IF event_type = UPDATED THEN tx.user_id ELSE ""
          IN  /\ p \in PartitionsOf([transaction |-> [user_id |-> key]])
              /\ kafka_breaker' = r.breaker
              /\ published' = r.published
              /\ reply' = [op |-> "publish", sent |-> r.sent]
    /\ queries' = queries + 1
    /\ UNCHANGED <<pipeline_vars, es_breaker, circuit_breaker_enabled, calls,
                   transactions, documents, use_elasticsearch_as_primary,
                   page_cache, response, walk, redis_breaker, events_enabled,
                   redis_up, es_up>>

\* The cache server and the index go down and come back.
RedisChanges ==
    /\ redis_up' = ~redis_up
    /\ UNCHANGED <<pipeline_vars, es_breaker, circuit_breaker_enabled, calls,
                   query_vars, redis_breaker, kafka_breaker, events_enabled,
                   es_up, published, reply>>

EsChanges ==
    /\ es_up' = ~es_up
    /\ UNCHANGED <<pipeline_vars, es_breaker, circuit_breaker_enabled, calls,
                   query_vars, redis_breaker, kafka_breaker, events_enabled,
                   redis_up, published, reply>>

\* The relational-primary service serves; the adapters are as the process
\* found them at its start.
InitApi ==
    /\ PipelineAtStart
    /\ search_enabled \in BOOLEAN
    /\ cache_enabled \in BOOLEAN
    /\ es_breaker = NewBreaker
    /\ circuit_breaker_enabled \in BOOLEAN
    /\ calls = <<>>
    /\ redis_breaker = NewBreaker
    /\ kafka_breaker = NewBreaker
    /\ events_enabled = TRUE
    /\ redis_up = TRUE
    /\ es_up = TRUE
    /\ published = <<>>
    /\ reply = NoReply
    /\ transactions = ApiTable
    /\ documents = ApiTable
    /\ use_elasticsearch_as_primary = FALSE
    /\ page_cache = <<>>
    /\ response = NoResponse
    /\ walk = NoWalk
    /\ queries = 0

NextApi ==
    \/ PostTransaction
    \/ ListTransactions
    \/ GetTransaction
    \/ PublishEvent
    \/ RedisChanges
    \/ EsChanges

SpecApi == InitApi /\ [][NextApi]_vars

\* The page the store gives for the listing of the last request.
Recomputed ==
    get_by_user_id(reply.user_id, reply.filters, reply.page, reply.page_size)

\* C21: once a record was created for a user, every listing of that user
\* by the relational-primary service (without text search, which reads the
\* index) is the listing of the store as it is now, whether the page comes
\* from the cache or not.
C21_ListAfterCreateIsFresh ==
    (/\ reply.op = "list"
     /\ reply.filters.search_query = <<>>
     /\ \E tx \in transactions :
           tx.id \in CreatedIds /\ tx.user_id = reply.user_id) =>
        /\ reply.items = Recomputed.transactions
        /\ reply.total = Recomputed.total

\* C22: a listing with text search computed while the index is not
\* available (adapter disabled, breaker open, call failed) is the listing
\* of the relational search.
C22_SearchFallsBackToRelational ==
    (/\ reply.op = "list"
     /\ reply.filters.search_query # <<>>
     /\ ~reply.hit
     /\ reply.index # "ok") =>
        /\ reply.items = Recomputed.transactions
        /\ reply.total = Recomputed.total

\* C26: a GET of a record by a caller whose token names another user than
\* the record's is answered 403, from the cache as from the store; the
\* record a POST with a token stores belongs to the user of the token.
C26_OwnerOnlyReadAndTokenOwnsWrite ==
    /\ (reply.op = "get" /\ reply.current_user_id # "") =>
           \A tx \in transactions :
               (tx.id = reply.id /\ tx.user_id # reply.current_user_id) =>
                   reply.status = 403
    /\ (reply.op = "create" /\ reply.status = 201
        /\ reply.current_user_id # "") =>
           \E tx \in transactions :
               tx.id = reply.id /\ tx.user_id = reply.current_user_id

\* A record created through the API sits in the cache and is refused from
\* there to a caller whose token names another user.
C26_Witness ==
    /\ reply.op = "get"
    /\ reply.hit
    /\ reply.status = 403
    /\ reply.id \in CreatedIds
    /\ \E tx \in transactions :
          tx.id = reply.id /\ tx.user_id # reply.current_user_id

\* C27: a listing for which the cache is disabled, does not answer, has its
\* breaker open or lacks the key is no hit and is the page the store gives
\* (without text search, which reads the index); a create is answered 201
\* also when delete_pattern finds no server.
C27_CacheFailuresAreInvisible ==
    /\ (reply.op = "list"
        /\ reply.cache \in {"disabled", "error", "open", "missing"}) =>
           /\ ~reply.hit
           /\ reply.filters.search_query = <<>> =>
                  /\ reply.items = Recomputed.transactions
                  /\ reply.total = Recomputed.total
    /\ (reply.op = "create" /\ ~reply.redis_up) => reply.status = 201

\* A listing was served from the store while the cache breaker was open
\* and the key was in the cache.
C27_Witness ==
    /\ reply.op = "list"
    /\ reply.cache = "open"
    /\ reply.items # <<>>
    /\ _build_cache_key(reply.user_id, reply.filters, reply.page,
                        reply.page_size) \in DOMAIN page_cache

\* C29: every event published for a user carries that user's user_id as
\* its key, and the events of one user are all on one partition.
C29_EventsKeyedByUser ==
    \A i \in DOMAIN published :
        /\ published[i].key = published[i].owner
        /\ \A j \in DOMAIN published :
               published[i].owner = published[j].owner =>
                   published[i].partition = published[j].partition

(***************************************************************************)
(* GET /health (app/api/routes/health.py): the ping of each dependency     *)
(* combined with the state of its breaker, while listings and publishes    *)
(* drive the three breakers.                                               *)
(***************************************************************************)
\* A status that looks at the ping only.
DependencyStatusFromPing(ping, b) ==
    IF ping THEN "healthy" ELSE "unhealthy"

\* The status of a dependency with a breaker: "healthy" or "unhealthy" by
\* the ping, overwritten by "degraded" when get_state() says "open".
DependencyStatus(ping, b) ==
    IF b.state = "open" THEN "degraded"
    ELSE IF ping THEN "healthy"
    ELSE "unhealthy"

\* An overall status that never looks at the relational store.
OverallWithoutDatabase(db_status, cache_status, search_status, event_status) ==
    IF /\ cache_status = "healthy"
       /\ search_status = "healthy"
       /\ event_status = "healthy"
    THEN "healthy"
    ELSE "degraded"

overall_status(db_status, cache_status, search_status, event_status) ==
    IF db_status = "unhealthy" THEN "unhealthy"
    ELSE IF /\ cache_status = "healthy"
            /\ search_status = "healthy"
            /\ event_status = "healthy"
    THEN "healthy"
    ELSE "degraded"

\* health_check of the route: db_ok and kafka_ok say whether SELECT 1 and
\* list_topics answer; the health_check of a disabled adapter is False.
HealthCheck ==
    /\ \E db_ok \in BOOLEAN, kafka_ok \in BOOLEAN :
          LET ping == [database |-> db_ok,
                       redis |-> cache_enabled /\ redis_up,
                       elasticsearch |-> search_enabled /\ es_up,
                       kafka |-> events_enabled /\ kafka_ok]
              db_status == IF db_ok THEN "healthy" ELSE "unhealthy"
              cache_status == DependencyStatus(ping.redis, redis_breaker)
              search_status == DependencyStatus(ping.elasticsearch, es_breaker)
              event_status == DependencyStatus(ping.kafka, kafka_breaker)
          IN  reply' = [op |-> "health", ping |-> ping,
                        state |-> [redis |-> redis_breaker.state,
                                   elasticsearch |-> es_breaker.state,
                                   kafka |-> kafka_breaker.state],
                        status |-> overall_status(db_status, cache_status,
                                                  search_status, event_status),
                        database |-> db_status, redis |-> cache_status,
                        elasticsearch |-> search_status,
                        kafka |-> event_status]
    /\ UNCHANGED <<pipeline_vars, es_breaker, circuit_breaker_enabled, calls,
                   query_vars, redis_breaker, kafka_breaker, events_enabled,
                   redis_up, es_up, published>>

\* The timeout of an open breaker runs out.
BreakerTimeoutElapses ==
    /\ \E dep \in {"redis", "elasticsearch", "kafka"} :
          LET b == IF dep = "redis" THEN redis_breaker
                   ELSE IF dep = "elasticsearch" THEN es_breaker
                   ELSE kafka_breaker
              elapsed == [b EXCEPT !.last_failure_time = "old"]
          IN  /\ b.state = "open"
              /\ b.last_failure_time = "recent"
              /\ redis_breaker' = IF dep = "redis" THEN elapsed
                                  ELSE redis_breaker
              /\ es_breaker' = IF dep = "elasticsearch" THEN elapsed
                               ELSE es_breaker
              /\ kafka_breaker' = IF dep = "kafka" THEN elapsed
                                  ELSE kafka_breaker
    /\ UNCHANGED <<pipeline_vars, circuit_breaker_enabled, calls, query_vars,
                   events_enabled, redis_up, es_up, published, reply>>

\* The three adapters connected at the start, the breakers in force.
InitHealth ==
    /\ PipelineAtStart
    /\ search_enabled = TRUE
    /\ cache_enabled = TRUE
    /\ es_breaker = NewBreaker
    /\ circuit_breaker_enabled = TRUE
    /\ calls = <<>>
    /\ ServicesAtStart
    /\ transactions = ApiTable
    /\ documents = ApiTable
    /\ use_elasticsearch_as_primary = FALSE
    /\ page_cache = <<>>
    /\ response = NoResponse
    /\ walk = NoWalk
    /\ queries = 0

NextHealth ==
    \/ HealthCheck
    \/ ListTransactions
    \/ PublishEvent
    \/ RedisChanges
    \/ EsChanges
    \/ BreakerTimeoutElapses

SpecHealth == InitHealth /\ [][NextHealth]_vars

BreakerDependencies == {"redis", "elasticsearch", "kafka"}

EvBadMetadata == [EvCreatedV1 EXCEPT !.transaction.metadata = "text"]

\* A created event with a mapping as metadata.
EvWithMetadata == [EvUpdatedV2 EXCEPT !.transaction.metadata = "mapping"]

MalformedEvents == {EvBadMetadata, EvWithMetadata, EvBadAmount}

\* A producer other than the API appends one of these events.
PublishMalformed ==
    /\ pc = "idle"
    /\ \E value \in MalformedEvents, p \in Partitions :
          /\ p \in PartitionsOf(value)
          /\ Len(log[0]) + Len(log[1]) < MaxLog
          /\ log' = [log EXCEPT ![p] = Append(@, value)]
    /\ UNCHANGED <<position, committed, pc, todo, successful, failed,
                   processed_messages, cache, index, audit, dlq, es_breaker,
                   circuit_breaker_enabled, search_enabled, cache_enabled, runs, last>>
    /\ UNCHANGED api_vars

NextEnrich ==
    \/ PublishMalformed
    \/ Poll
    \/ ProcessMessage
    \/ Commit
    \/ SendToDLQ

SpecEnrich == Init /\ [][NextEnrich]_vars

\* C28: a message whose enrichment failed is put on the failed list, which
\* goes to the DLQ, and causes no index and no audit write.
C28_EnrichFailureGoesToDLQ ==
    (last.handled /\ last.enrich_failed) => (~last.acked /\ ~last.fanned)

close ==
    IF kafka_enable_auto_commit THEN position ELSE committed

\* signal_handler: Python runs it between two bytecodes of the main thread,
\* wherever the loop is; it closes the consumer and the producer and raises
\* SystemExit(0), which no "except Exception" of the loop catches; the
\* finally clauses close again.
SignalHandler ==
    /\ pc # "closed"
    /\ committed' = close
    /\ pc' = "closed"
    /\ reply' = [op |-> "shutdown", at |-> pc, exit_code |-> 0]
    /\ UNCHANGED <<log, position, todo, successful, failed,
                   processed_messages, cache, index, audit, dlq, es_breaker,
                   circuit_breaker_enabled, search_enabled, cache_enabled,
                   runs, last>>
    /\ UNCHANGED <<calls, query_vars, redis_breaker, kafka_breaker,
                   events_enabled, redis_up, es_up, published>>

NextShutdown ==
    \/ Publish
    \/ Poll
    \/ ProcessMessage
    \/ Commit
    \/ SendToDLQ
    \/ SignalHandler

SpecShutdown == Init /\ [][NextShutdown]_vars

\* C32: when the consumer is closed on a signal, no message of the batch in
\* hand is left unprocessed and every message processed with success is
\* covered by the committed offset of its partition.
C32_ShutdownFinishesBatch ==
    pc = "closed" =>
        /\ todo = <<>>
        /\ \A i \in 1..Len(successful) :
              committed[successful[i].partition] > successful[i].offset

\* C33: a created or updated event without version is written to the index
\* with a version above the one the index holds for the id (1 when it
\* holds none) and is not rejected by the index when the index answers; an
\* event with a version is written with exactly that version.
C33_VersionAboveStored ==
    (/\ last.handled
     /\ last.fanned
     /\ last.value.event_type \in {CREATED, UPDATED}) =>
        IF last.value.version # 0
        THEN last.version = last.value.version
        ELSE last.version > last.stored_version

(***************************************************************************)
(* The periodic breaker check of the consumer loop                         *)
(* (MessageConsumer.start_consuming, every circuit_check_interval).        *)
(***************************************************************************)
\* The check as the loop runs it, whatever the breaker and the ping.
PeriodicBreakerCheck ==
    /\ pc = "idle"
    /\ \E ping \in BOOLEAN :
          /\ es_breaker' = _check_and_reset_circuit_breaker(es_breaker, ping)
          /\ reply' = [op |-> "breaker_check",
                       ping |-> search_enabled /\ ping,
                       before |-> es_breaker, after |-> es_breaker']
    /\ UNCHANGED <<log, position, committed, pc, todo, successful, failed,
                   processed_messages, cache, index, audit, dlq,
                   circuit_breaker_enabled, search_enabled, cache_enabled,
                   runs, last>>
    /\ UNCHANGED <<calls, query_vars, redis_breaker, kafka_breaker,
                   events_enabled, redis_up, es_up, published>>

NextBreakerCheck ==
    \/ Publish
    \/ Poll
    \/ ProcessMessage
    \/ Commit
    \/ SendToDLQ
    \/ TimeoutElapses
    \/ PeriodicBreakerCheck

SpecBreakerCheck == Init /\ [][NextBreakerCheck]_vars

\* C34: a periodic check that finds the index breaker open and the ping
\* answered leaves it closed with its counters at zero and no failure time;
\* a check that finds it closed or half-open, or whose ping fails, leaves
\* state and counters as they were.
C34_PeriodicCheckResetsOnlyOpen ==
    reply.op = "breaker_check" =>
        IF reply.before.state = "open" /\ reply.ping
        THEN reply.after = NewBreaker
        ELSE reply.after = reply.before

\* An open breaker was reset by a check whose ping was answered.
C34_Witness ==
    /\ reply.op = "breaker_check"
    /\ reply.before.state = "open"
    /\ reply.ping
    /\ reply.after.state = "closed"
    /\ reply.after.failure_count = 0

(***************************************************************************)
(* Offset pagination.                                                      *)
(***************************************************************************)
\* The records of the store that the last offset query is about.
MatchingLast ==
    _apply_filters({r \in transactions : r.user_id = response.user_id},
                   response.filters)

\* C35: a page computed for an offset query carries as total the number of
\* records of the user that pass the filters, whatever page and page_size;
\* its items are the records at the ranks (page-1)*page_size+1 .. of the
\* order created_at DESC, id DESC, as many as there are up to page_size;
\* total_pages is total / page_size rounded up.
C35_OffsetPage ==
    (response.kind = "offset" /\ ~response.hit) =>
        LET offset == (response.page - 1) * response.limit
            left == IF response.total > offset THEN response.total - offset
                    ELSE 0
        IN  /\ response.total = Cardinality(MatchingLast)
            /\ Len(response.items) = Min(response.limit, left)
            /\ \A i \in 1..Len(response.items) :
                  /\ response.items[i] \in MatchingLast
                  /\ Cardinality({r \in MatchingLast :
                                     Before(r, response.items[i])})
                         = offset + i - 1
            /\ response.total_pages * response.limit >= response.total
            /\ (response.total_pages - 1) * response.limit < response.total
               \/ response.total_pages = 0

\* A second page that is not the last word: records before it and a total
\* above what it holds.
C35_Witness ==
    /\ response.kind = "offset"
    /\ ~response.hit
    /\ response.page = 2
    /\ response.items # <<>>
    /\ response.total > Len(response.items) + response.limit
    /\ response.total_pages = 3


(***************************************************************************)
(* The consumer fed by EventService with successive updates of one         *)
(* transaction.                                                            *)
(***************************************************************************)
\* publish_transaction_updated: the API appends the updated event of a
\* later state of t1 to the partition of its user.
PublishUpdated ==
    /\ pc = "idle"
    /\ \E transaction \in UpdatePayloads, updated_at \in {2, 3}, p \in Partitions :
          /\ p \in PartitionsOf(EventMessage(UPDATED, transaction, updated_at))
          /\ Len(log[0]) + Len(log[1]) < MaxLog
          /\ log' = [log EXCEPT ![p] =
                        Append(@, EventMessage(UPDATED, transaction, updated_at))]
    /\ UNCHANGED <<position, committed, pc, todo, successful, failed,
                   processed_messages, cache, index, audit, dlq, es_breaker,
                   circuit_breaker_enabled, search_enabled, cache_enabled, runs, last>>
    /\ UNCHANGED api_vars

NextUpdates ==
    \/ PublishUpdated
    \/ Poll
    \/ ProcessMessage
    \/ Commit
    \/ SendToDLQ

SpecUpdates == Init /\ [][NextUpdates]_vars

\* C36: every message is delivered once here, so a message handled as a
\* duplicate is the copy of an event that is on the topic a second time:
\* two events with different payloads are never duplicates of each other.
C36_DistinctEventsNotDuplicates ==
    (last.handled /\ last.duplicate) =>
        \E p \in Partitions : \E i \in 1..Len(log[p]) :
            /\ <<p, i>> # <<last.partition, last.offset + 1>>
            /\ log[p][i] = last.value

\* C37: when the batch ends, every message of the failed list is on the DLQ
\* or at or after the committed offset of its partition, whatever the state
\* of the index breaker.
C37_FailedIsOnDLQOrUncommitted ==
    [][(pc = "dlq" /\ pc' = "idle") =>
          \A i \in 1..Len(failed) :
              \/ \E d \in dlq' : /\ d.partition = failed[i].partition
                                 /\ d.offset = failed[i].offset
                                 /\ d.original_message = failed[i].value
              \/ committed'[failed[i].partition] <= failed[i].offset
      ]_vars

\* The cache key of a request for user u1, as the service that answers
\* builds it.
KeyOfRequest(kind, filters, limit, cursor, page) ==
    IF kind = "offset" THEN _build_cache_key("u1", filters, page, limit)
    ELSE IF SearchPrimary THEN EsBuildCacheKeyCursor("u1", filters, limit, cursor)
    ELSE _build_cache_key_cursor("u1", filters, limit, cursor)

\* C38: a request of the same user that differs from the one just answered
\* in a filter or in the cursor has another cache key.
C38_CacheKeyInjective ==
    response.kind \in {"cursor", "offset"} =>
        \A filters \in Filters,
           cursor \in (IF response.kind = "cursor" THEN Cursors \cup {NoCursor}
                       ELSE {NoCursor}) :
            (filters # response.filters \/ cursor # response.cursor) =>
                KeyOfRequest(response.kind, filters, response.limit, cursor,
                             response.page)
                # KeyOfRequest(response.kind, response.filters, response.limit,
                               response.cursor, response.page)

(***************************************************************************)
(* The breaker under concurrent callers: the API serves its requests on    *)
(* several threads, which share the breakers of the process.  call() holds *)
(* the lock while it looks at the state and again inside _on_success and   *)
(* _on_failure, and runs func in between without it.                       *)
(***************************************************************************)
\* Calls started in one behaviour.
MaxThreadCalls == 4

\* The first part of call(), under the lock: "off" when the kill switch
\* lets the call through, "rejected" when the breaker is open and its
\* timeout has not passed, else the state the call is admitted in.
enter(b, enabled) ==
    IF ~enabled
    THEN [breaker |-> b, admitted_in |-> "off"]
    ELSE IF b.state = "open" /\ ~_should_attempt_reset(b)
    THEN [breaker |-> b, admitted_in |-> "rejected"]
    ELSE IF b.state = "open"
    THEN [breaker |-> [b EXCEPT !.state = "half_open", !.success_count = 0],
          admitted_in |-> "half_open"]
    ELSE [breaker |-> b, admitted_in |-> b.state]

\* The second part, after func returned (funcOk) or raised: the handlers
\* look at the state of the breaker as it is by then.
leave(b, admitted_in, funcOk) ==
    IF admitted_in = "off" THEN b
    ELSE IF funcOk THEN _on_success(b)
    ELSE _on_failure(b)

\* A thread enters call() and, unless rejected, starts func.
CallEnters ==
    /\ Len(calls) < MaxThreadCalls
    /\ \E r \in {enter(es_breaker, circuit_breaker_enabled)} :
          /\ es_breaker' = r.breaker
          /\ calls' = Append(calls,
                             [op |-> "call", admitted_in |-> r.admitted_in,
                              running |-> r.admitted_in # "rejected",
                              ok |-> FALSE, before |-> r.breaker,
                              after |-> r.breaker])
    /\ UNCHANGED <<circuit_breaker_enabled, pipeline_vars, query_vars,
                   service_vars>>

\* func of one of the running calls ends, and its outcome is recorded.
CallLeaves ==
    /\ \E i \in 1..Len(calls), funcOk \in BOOLEAN :
          /\ calls[i].running
          /\ \E b \in {leave(es_breaker, calls[i].admitted_in, funcOk)} :
                /\ es_breaker' = b
                /\ calls' = [calls EXCEPT ![i] =
                                [@ EXCEPT !.running = FALSE, !.ok = funcOk,
                                          !.before = es_breaker, !.after = b]]
    /\ UNCHANGED <<circuit_breaker_enabled, pipeline_vars, query_vars,
                   service_vars>>

NextThreads ==
    \/ CallEnters
    \/ CallLeaves
    \/ TimeoutElapses

SpecThreads == InitBreaker /\ [][NextThreads]_vars

\* C39: the outcome of a call admitted while the breaker was closed, when
\* it is recorded while the breaker is half-open, changes neither the
\* half-open success count nor the state.
C39_HalfOpenCountsOnlyItsOwnCalls ==
    \A i \in 1..Len(calls) :
        (/\ ~calls[i].running
         /\ calls[i].admitted_in = "closed"
         /\ calls[i].before.state = "half_open")
        => /\ calls[i].after.state = "half_open"
           /\ calls[i].after.success_count = calls[i].before.success_count

(***************************************************************************)
(* GET /transactions for several users: the route chooses the effective    *)
(* user and hands the query to the service in place.                       *)
(***************************************************************************)
\* The identities tokens are issued for (POST /auth/token accepts any
\* text): the owners of the records and a user whose id holds colons.
Identities == Users \cup {"u1:status:completed"}

\* The records of u1 and the record of u2, on alternating dates.
UsersTable == {Record(id, (id % 2) + 1) : id \in 1..(MaxRecords + 1)}

\* The effective user of the route: the identity of the token when there
\* is one, else the user_id of the query string; "" ends in 400.
effective_user_id(current_user_id, user_id) ==
    IF current_user_id # "" THEN current_user_id ELSE user_id

ListRequest(current_user_id, user_id) ==
    [op |-> "list", token |-> current_user_id, user_id |-> user_id,
     status |-> IF effective_user_id(current_user_id, user_id) = ""
                THEN 400 ELSE 200]

\* The request with page and page_size, relational-primary service.
ListOffset ==
    /\ ~SearchPrimary
    /\ queries < MaxQueries
    /\ \E current_user_id \in Identities \cup {""},
          user_id \in Identities \cup {""}, filters \in Filters,
          page_size \in Limits :
          \E u \in {effective_user_id(current_user_id, user_id)} :
              /\ reply' = ListRequest(current_user_id, user_id)
              /\ IF u = ""
                 THEN /\ response' = NoResponse
                      /\ UNCHANGED <<page_cache, redis_breaker, es_breaker>>
                 ELSE \E r \in {get_transactions(u, filters, 1, page_size,
                                                 "desc")} :
                          /\ page_cache' = r.cache
                          /\ redis_breaker' = r.redis_breaker
                          /\ es_breaker' = r.es_breaker
                          /\ response' =
                               [kind |-> "offset", user_id |-> u,
                                filters |-> filters, limit |-> page_size,
                                cursor |-> NoCursor, page |-> 1,
                                hit |-> r.hit, items |-> r.page.items,
                                next_cursor |-> NoCursor, has_more |-> FALSE,
                                total |-> r.page.total,
                                total_pages |-> r.page.total_pages]
    /\ walk' = NoWalk
    /\ queries' = queries + 1
    /\ UNCHANGED <<transactions, documents, use_elasticsearch_as_primary,
                   pipeline_vars, circuit_breaker_enabled, calls,
                   kafka_breaker, events_enabled, redis_up, es_up, published>>

\* The request with limit and no cursor, relational-primary service; a
\* listing without cursor raises nothing.
ListCursor ==
    /\ ~SearchPrimary
    /\ queries < MaxQueries
    /\ \E current_user_id \in Identities \cup {""},
          user_id \in Identities \cup {""}, filters \in Filters,
          limit \in Limits :
          \E u \in {effective_user_id(current_user_id, user_id)} :
              /\ reply' = ListRequest(current_user_id, user_id)
              /\ IF u = ""
                 THEN /\ response' = NoResponse
                      /\ UNCHANGED <<page_cache, redis_breaker>>
                 ELSE \E r \in {get_transactions_cursor(u, filters, limit,
                                                        NoCursor)} :
                          /\ page_cache' = r.cache
                          /\ redis_breaker' = r.redis_breaker
                          /\ response' =
                               [KeysetAnswer(filters, limit, NoCursor, r)
                                EXCEPT !.user_id = u]
    /\ walk' = NoWalk
    /\ queries' = queries + 1
    /\ UNCHANGED <<transactions, documents, use_elasticsearch_as_primary,
                   pipeline_vars, es_breaker, circuit_breaker_enabled, calls,
                   kafka_breaker, events_enabled, redis_up, es_up, published>>

\* The same request, search-primary service.
ListCursorEs ==
    /\ SearchPrimary
    /\ queries < MaxQueries
    /\ \E current_user_id \in Identities \cup {""},
          user_id \in Identities \cup {""}, filters \in Filters,
          limit \in Limits :
          \E u \in {effective_user_id(current_user_id, user_id)} :
              /\ reply' = ListRequest(current_user_id, user_id)
              /\ IF u = ""
                 THEN /\ response' = NoResponse
                      /\ UNCHANGED <<page_cache, redis_breaker, es_breaker>>
                 ELSE \E r \in {EsGetTransactionsCursor(u, filters, limit,
                                                        NoCursor, "desc")} :
                          /\ page_cache' = r.cache
                          /\ redis_breaker' = r.redis_breaker
                          /\ es_breaker' = r.es_breaker
                          /\ response' =
                               [KeysetAnswer(filters, limit, NoCursor, r)
                                EXCEPT !.user_id = u]
    /\ walk' = NoWalk
    /\ queries' = queries + 1
    /\ UNCHANGED <<transactions, documents, use_elasticsearch_as_primary,
                   pipeline_vars, circuit_breaker_enabled, calls,
                   kafka_breaker, events_enabled, redis_up, es_up, published>>

InitUsers ==
    /\ PipelineAtStart
    /\ search_enabled = TRUE
    /\ cache_enabled \in BOOLEAN
    /\ es_breaker = NewBreaker
    /\ circuit_breaker_enabled = FALSE
    /\ calls = <<>>
    /\ ServicesAtStart
    /\ transactions = UsersTable
    /\ documents = transactions
    /\ use_elasticsearch_as_primary \in BOOLEAN
    /\ page_cache = <<>>
    /\ response = NoResponse
    /\ walk = NoWalk
    /\ queries = 0

NextUsers ==
    \/ ListOffset
    \/ ListCursor
    \/ ListCursorEs

SpecUsers == InitUsers /\ [][NextUsers]_vars

\* C40: a page answered for the effective user holds only records of that
\* user, from the cache or not, and with a token the effective user is the
\* identity of the token.
C40_PageHoldsOnlyOwnRecords ==
    (reply.op = "list" /\ reply.status = 200) =>
        /\ \A i \in 1..Len(response.items) :
              response.items[i].user_id = response.user_id
        /\ reply.token # "" => response.user_id = reply.token

=============================================================================
